---- MODULE Spec2Model ----
(***************************************************************************)
(* A model of the varlink client of org.varlink.http:                      *)
(*   - the wire connection (Connection.Send, its receive closure, Call,    *)
(*     Close) of package varlink, over a byte stream to a service;         *)
(*   - the interface description parser and renderer (NewInterface,        *)
(*     Interface.String) of varlink/service.go.                            *)
(* A byte stream is a sequence of units: the text of one JSON value, the   *)
(* NUL byte, or bytes that are no JSON at all.                             *)
(***************************************************************************)
EXTENDS Integers, Sequences, FiniteSets, TLC

VARIABLES
    conn,       \* c.conn: "open" after NewConnection, "closed" after Close
    wbuf,       \* c.writer: the units buffered and not yet written to c.conn
    werr,       \* c.writer: its sticky error (bufio.Writer.err # nil)
    rbuf,       \* c.reader: the units read from c.conn and not yet returned
    wireOut,    \* every unit that reached the transport, client to service
    wireIn,     \* units the service wrote that c.conn has not yet read
    peerOpen,   \* the service's end of the stream is open
    nframes,    \* the number of reply frames the service has written
    calls,      \* the Sends that returned a receive closure, in order
    nread,      \* the number of frames receive closures have consumed
    rvLog,      \* the flags returned by each receive that consumed a frame
    pc,         \* the caller: "idle", "receive" (in a receive closure),
                \*   "call_receive" (in Call's receive), "returned" (an
                \*   operation has returned and the caller looks at the result)
    cur,        \* the running receive: its closure, and Call's arguments
    out,        \* the caller's out_parameters value, fresh for every receive
    last,       \* the operation that has just returned and what it returned
    input,      \* the description text given to NewInterface
    nmembers,   \* the number of member texts input was built from
    malformed,  \* input holds a member text the grammar does not derive
    given,      \* what input was put together from, where a property needs it
    dtype,      \* the type DefaultValue was applied to
    dvalue,     \* what DefaultValue returned
    phase,      \* "build", "parsed", "rendered", "reparsed"
    parsed,     \* NewInterface(input)
    rendered,   \* parsed.String()
    reparsed,   \* NewInterface(rendered)
    riface,     \* the interface name Resolve was called with
    rimpl,      \* whose code runs: that of "main.go" or "part_001", or that of "part_003"
    rpc,        \* Resolve: "idle", "dialed", "called", "returned"
    rret,       \* what Resolve returned
    ndial,      \* connections Resolve has tried to make
    nclose,     \* connections Resolve has closed
    nresolve,   \* calls of Resolve that have returned
    address,    \* the address NewConnection or Dial was called with
    dret,       \* what NewConnection or Dial returned
    handler,    \* the HTTP handler that runs
    status,     \* the HTTP status code of its response (0: none yet)
    writer      \* the http.ResponseWriter the handler was given

connVars == <<conn, wbuf, werr, rbuf, wireOut, wireIn, peerOpen, nframes,
              calls, nread, rvLog, pc, cur, out, last>>

idlVars == <<input, nmembers, malformed, given, dtype, dvalue, phase, parsed, rendered, reparsed>>

resolveVars == <<riface, rimpl, rpc, rret, ndial, nclose, nresolve>>

dialVars == <<address, dret>>

httpVars == <<handler, status, writer>>

vars == <<connVars, idlVars, resolveVars, dialVars, httpVars>>

----------------------------------------------------------------------------
(* Bounds of the model. *)

MaxSends == 2

MaxFrames == 3

\* reply frames written by the service and not yet consumed by a receive
MaxInFlight == 2

\* member texts appended to the interface header
MaxMembers == 2

\* calls of Resolve, one after the other
MaxResolves == 2

\* characters of the interface names tried, all names up to this length
MaxNameLen == 4

\* [] suffixes behind a base type
MaxSuffixes == 2

\* members of the descriptions DefaultValue is tried on
MaxDefaultMembers == 2

\* the parts an input text of any kind is put together from, at most
MaxInputParts == 3

\* the parts an address text is put together from, at most
MaxAddressParts == 3

----------------------------------------------------------------------------
(* Message flags. *)

More == 1

Oneway == 2

Continues == 4

FlagValues == 0..3

\* flags&f != 0, for f a power of two
HasFlag(flags, f) == (flags \div f) % 2 = 1

----------------------------------------------------------------------------
(* Units of a byte stream. f is the number of the frame the unit was       *)
(* written in, counted per direction: the unit's place in the stream.      *)

Json(body, f) == [t |-> "json", v |-> body, f |-> f]

Nul(f) == [t |-> "nul", v |-> <<>>, f |-> f]

Junk(f) == [t |-> "junk", v |-> <<>>, f |-> f]

----------------------------------------------------------------------------
(* Go values passed as call parameters: v is the dynamic value ("nil" is   *)
(* the nil interface, "chan" a value encoding/json cannot encode), ptr     *)
(* says the interface holds a pointer to an interface holding v.           *)

ParamValues == {"nil", "{x}", "chan"}

Direct(v) == [ptr |-> FALSE, v |-> v]

AddrOf(v) == [ptr |-> TRUE, v |-> v]

\* encoding/json isEmptyValue for a field of interface type: the interface is nil
IsEmptyValue(val) == ~val.ptr /\ val.v = "nil"

Marshalable(val) == val.v # "chan"

\* the encoding of a non-omitted value: a pointer encodes what it points to,
\* and a nil interface encodes as null
EncodeValue(val) == IF val.v = "nil" THEN "null" ELSE val.v

----------------------------------------------------------------------------
(* Connection.Send. *)

Methods == {"org.example.Ping"}

\* a Send without the guard
FlagsInvalid_NeverRejects(flags) == FALSE

\* Send's guard: More and Oneway are both set
FlagsInvalid(flags) == HasFlag(flags, More) /\ HasFlag(flags, Oneway)

\* json.Marshal of the call struct: the members of the object, in field order;
\* parameters, more and oneway are omitempty
MarshalCall(method, parameters, flags) ==
    << <<"method", method>> >>
    \o (IF IsEmptyValue(parameters) THEN <<>>
        ELSE << <<"parameters", EncodeValue(parameters)>> >>)
    \o (IF HasFlag(flags, More) THEN << <<"more", "true">> >> ELSE <<>>)
    \o (IF HasFlag(flags, Oneway) THEN << <<"oneway", "true">> >> ELSE <<>>)

\* a frame left without its NUL
Frame_NoTerminator(body, f) == <<Json(body, f)>>

\* b = append(b, 0): the serialized object and one NUL
Frame(body, f) == <<Json(body, f), Nul(f)>>

\* c.conn.Write(data): how many units reached the transport and whether it failed.
\* A closed connection writes nothing; once the service has gone the write may
\* still succeed or fail after any prefix.
ConnWrite(data) ==
    IF conn = "closed" THEN {[n |-> 0, err |-> TRUE]}
    ELSE IF peerOpen THEN {[n |-> Len(data), err |-> FALSE]}
    ELSE {[n |-> Len(data), err |-> FALSE]}
         \cup {[n |-> k, err |-> TRUE] : k \in 0..(Len(data) - 1)}

NoWrite(e) == {[err |-> e, wbuf |-> wbuf, werr |-> werr, wireOut |-> wireOut]}

\* c.writer.Write(b) followed by c.writer.Flush(): Write fails on the sticky
\* error, else buffers b; Flush hands the whole buffer to c.conn in one Write
\* and keeps what was not written
WriteAndFlush(b) ==
    IF werr THEN NoWrite("io")
    ELSE LET buf == wbuf \o b IN
         {[err |-> IF o.err THEN "io" ELSE "nil",
           wbuf |-> SubSeq(buf, o.n + 1, Len(buf)),
           werr |-> o.err,
           wireOut |-> wireOut \o SubSeq(buf, 1, o.n)] : o \in ConnWrite(buf)}

\* a Send that refuses to write while an earlier call has had no reply
SendOutcomes_InFlightCheck(method, parameters, flags) ==
    IF FlagsInvalid(flags) THEN NoWrite("org.varlink.InvalidParameter")
    ELSE IF ~Marshalable(parameters) THEN NoWrite("json")
    ELSE IF nread < Len(calls) THEN NoWrite("busy")
    ELSE WriteAndFlush(Frame(MarshalCall(method, parameters, flags), Len(calls) + 1))

\* the body of Send up to the creation of the receive closure: the outcomes
\* (the error returned, the writer and the transport afterwards)
SendOutcomes(method, parameters, flags) ==
    IF FlagsInvalid(flags) THEN NoWrite("org.varlink.InvalidParameter")
    ELSE IF ~Marshalable(parameters) THEN NoWrite("json")
    ELSE WriteAndFlush(Frame(MarshalCall(method, parameters, flags), Len(calls) + 1))

\* what an operation reports: its name, the error it returned (name and params
\* of a service Error), the flags receive returned, the arguments Send was
\* given, how many units it put on the transport, the frame it consumed and
\* whether it decoded into the caller's out value
NoResult == [op |-> "none", err |-> "nil", name |-> "", params |-> "nil",
             rv |-> 0, flags |-> 0, arg |-> Direct("nil"), wrote |-> 0,
             units |-> <<>>, decoded |-> FALSE]

\* no receive is running
NoCur == [k |-> 0, arg |-> Direct("nil"), nwire |-> 0]

\* c.Send(method, parameters, flags), called by the user of the package
Send(method, parameters, flags) ==
    /\ pc = "idle"
    /\ Len(calls) < MaxSends
    /\ \E r \in SendOutcomes(method, Direct(parameters), flags) :
        /\ wbuf' = r.wbuf
        /\ werr' = r.werr
        /\ wireOut' = r.wireOut
        /\ calls' = IF r.err = "nil"
                    THEN Append(calls, [method |-> method, arg |-> Direct(parameters),
                                        flags |-> flags, via |-> "Send"])
                    ELSE calls
        /\ last' = [NoResult EXCEPT !.op = "Send", !.err = r.err, !.flags = flags,
                                    !.arg = Direct(parameters),
                                    !.wrote = Len(r.wireOut) - Len(wireOut)]
    /\ pc' = "returned"
    /\ UNCHANGED <<conn, rbuf, wireIn, peerOpen, nframes, nread, rvLog, cur, out>>

----------------------------------------------------------------------------
(* The receive closure returned by Send. *)

IsNul(u) == u.t = "nul"

\* a reader that returns the buffer up to its last NUL
DelimAt_LastNul(buf) ==
    IF \E i \in 1..Len(buf) : IsNul(buf[i])
    THEN CHOOSE i \in 1..Len(buf) :
            IsNul(buf[i]) /\ \A j \in (i + 1)..Len(buf) : ~IsNul(buf[j])
    ELSE 0

\* bufio.Reader.ReadBytes('\x00'): the place of the first NUL of the buffer
\* (0: there is none, and the reader has to read from c.conn)
DelimAt(buf) ==
    IF \E i \in 1..Len(buf) : IsNul(buf[i])
    THEN CHOOSE i \in 1..Len(buf) :
            IsNul(buf[i]) /\ \A j \in 1..(i - 1) : ~IsNul(buf[j])
    ELSE 0

\* a reader whose ReadBytes leaves the delimiter in its buffer
Buffered_KeepsDelimiter(buf, n) == SubSeq(buf, n, Len(buf))

\* what the reader still holds when ReadBytes has returned the first n units
Buffered(buf, n) == SubSeq(buf, n + 1, Len(buf))

\* the value of the last member named key of a JSON object, a null or missing
\* member leaving the field at its zero value
JsonMember(body, key, zero) ==
    LET at == {i \in 1..Len(body) : body[i][1] = key} IN
    IF at = {} THEN zero
    ELSE LET v == body[CHOOSE i \in at : \A j \in at : j <= i][2] IN
         IF v = "null" THEN zero ELSE v

\* json.Unmarshal(out[:len(out)-1], &m) into the reply struct
Unmarshal(text) ==
    IF Len(text) = 1 /\ text[1].t = "json"
    THEN [ok |-> TRUE,
          Parameters |-> JsonMember(text[1].v, "parameters", "nil"),
          Continues |-> JsonMember(text[1].v, "continues", "false") = "true",
          Error |-> JsonMember(text[1].v, "error", "")]
    ELSE [ok |-> FALSE, Parameters |-> "nil", Continues |-> FALSE, Error |-> ""]

\* json.Unmarshal(*m.Parameters, out_parameters), its error dropped: the values
\* out can hold afterwards (a payload of the wrong shape may leave out as it
\* was or partly written)
DecodeInto(raw, old) == IF raw = "bad" THEN {old, "partial"} ELSE {raw}

Kept(old) == {[out |-> old, decoded |-> FALSE]}

Decoded(raw, old) == {[out |-> o, decoded |-> TRUE] : o \in DecodeInto(raw, old)}

\* a receive that decodes the parameters before it looks at the error
ReplyCode_DecodesBeforeError(m, old) ==
    IF ~m.ok
    THEN {[err |-> "json", name |-> "", params |-> "nil", rv |-> 0, o |-> o] : o \in Kept(old)}
    ELSE IF m.Error # ""
    THEN {[err |-> "service", name |-> m.Error, params |-> m.Parameters, rv |-> 0, o |-> o] :
            o \in IF m.Parameters # "nil" THEN Decoded(m.Parameters, old) ELSE Kept(old)}
    ELSE {[err |-> "nil", name |-> "", params |-> "nil",
           rv |-> IF m.Continues THEN Continues ELSE 0, o |-> o] :
            o \in IF m.Parameters # "nil" THEN Decoded(m.Parameters, old) ELSE Kept(old)}

\* a receive that returns the error of decoding the parameters
ReplyCode_ReturnsDecodeError(m, old) ==
    IF ~m.ok
    THEN {[err |-> "json", name |-> "", params |-> "nil", rv |-> 0, o |-> o] : o \in Kept(old)}
    ELSE IF m.Error # ""
    THEN {[err |-> "service", name |-> m.Error, params |-> m.Parameters, rv |-> 0, o |-> o] :
            o \in Kept(old)}
    ELSE {[err |-> IF m.Parameters = "bad" THEN "json" ELSE "nil", name |-> "", params |-> "nil",
           rv |-> IF m.Continues /\ m.Parameters # "bad" THEN Continues ELSE 0, o |-> o] :
            o \in IF m.Parameters # "nil" THEN Decoded(m.Parameters, old) ELSE Kept(old)}

\* what receive does with the decoded reply m: the error and flags it returns
\* and the caller's out value afterwards
ReplyCode(m, old) ==
    IF ~m.ok
    THEN {[err |-> "json", name |-> "", params |-> "nil", rv |-> 0, o |-> o] : o \in Kept(old)}
    ELSE IF m.Error # ""
    THEN {[err |-> "service", name |-> m.Error, params |-> m.Parameters, rv |-> 0, o |-> o] :
            o \in Kept(old)}
    ELSE {[err |-> "nil", name |-> "", params |-> "nil",
           rv |-> IF m.Continues THEN Continues ELSE 0, o |-> o] :
            o \in IF m.Parameters # "nil" THEN Decoded(m.Parameters, old) ELSE Kept(old)}

Receiving == pc \in {"receive", "call_receive"}

\* a Call that hands on the flags of its receive
Completed_KeepsFlags(r, units, decoded) ==
    [NoResult EXCEPT !.op = IF pc = "call_receive" THEN "Call" ELSE "receive",
                     !.err = r.err, !.name = r.name, !.params = r.params,
                     !.rv = r.rv,
                     !.arg = cur.arg,
                     !.wrote = Len(wireOut) - cur.nwire,
                     !.units = units,
                     !.decoded = decoded]

\* what the running operation reports when its receive returns: Call returns
\* the error of its receive and drops the flags
Completed(r, units, decoded) ==
    [NoResult EXCEPT !.op = IF pc = "call_receive" THEN "Call" ELSE "receive",
                     !.err = r.err, !.name = r.name, !.params = r.params,
                     !.rv = IF pc = "call_receive" THEN 0 ELSE r.rv,
                     !.arg = cur.arg,
                     !.wrote = Len(wireOut) - cur.nwire,
                     !.units = units,
                     !.decoded = decoded]

\* the user invokes the receive closure of the k-th successful Send
ReceiveStart(k) ==
    /\ pc = "idle"
    /\ k \in 1..Len(calls)
    /\ calls[k].via = "Send"
    /\ cur' = [k |-> k, arg |-> Direct("nil"), nwire |-> Len(wireOut)]
    /\ pc' = "receive"
    /\ UNCHANGED <<conn, wbuf, werr, rbuf, wireOut, wireIn, peerOpen, nframes,
                   calls, nread, rvLog, out, last>>

\* ReadBytes finds no NUL in the buffer: one Read of c.conn, which returns any
\* non-empty prefix of what has arrived
ReceiveFill(n) ==
    /\ Receiving
    /\ DelimAt(rbuf) = 0
    /\ conn = "open"
    /\ n \in 1..Len(wireIn)
    /\ rbuf' = rbuf \o SubSeq(wireIn, 1, n)
    /\ wireIn' = SubSeq(wireIn, n + 1, Len(wireIn))
    /\ UNCHANGED <<conn, wbuf, werr, wireOut, peerOpen, nframes, calls, nread,
                   rvLog, pc, cur, out, last>>

\* ReadBytes finds no NUL and the Read fails (the connection is closed, or the
\* service has gone and nothing is left): receive returns the error, and the
\* bytes read so far are lost
ReceiveFail ==
    /\ Receiving
    /\ DelimAt(rbuf) = 0
    /\ conn = "closed" \/ (wireIn = <<>> /\ ~peerOpen)
    /\ rbuf' = <<>>
    /\ last' = Completed([err |-> "io", name |-> "", params |-> "nil", rv |-> 0],
                         <<>>, FALSE)
    /\ pc' = "returned"
    /\ cur' = NoCur
    /\ UNCHANGED <<conn, wbuf, werr, wireOut, wireIn, peerOpen, nframes, calls,
                   nread, rvLog, out>>

\* ReadBytes returns the buffer up to its first NUL; the rest of receive
ReceiveReturn ==
    /\ Receiving
    /\ DelimAt(rbuf) > 0
    /\ LET n == DelimAt(rbuf)
           frame == SubSeq(rbuf, 1, n)
           m == Unmarshal(SubSeq(frame, 1, Len(frame) - 1))
       IN /\ rbuf' = Buffered(rbuf, n)
          /\ \E r \in ReplyCode(m, out) :
                /\ out' = r.o.out
                /\ last' = Completed(r, frame, r.o.decoded)
                /\ rvLog' = Append(rvLog, r.rv)
    /\ nread' = nread + 1
    /\ pc' = "returned"
    /\ cur' = NoCur
    /\ UNCHANGED <<conn, wbuf, werr, wireOut, wireIn, peerOpen, nframes, calls>>

----------------------------------------------------------------------------
(* Connection.Call and Connection.Close. *)

\* a Call that asks for more replies
CallFlags_More == More

\* the flags Call passes to Send
CallFlags == 0

\* the parameters Call passes to Send: &parameters
CallArg(parameters) == AddrOf(parameters)

\* c.Call(method, parameters, out_parameters): Send, and when it failed return
\* its error, else run receive
Call(method, parameters) ==
    /\ pc = "idle"
    /\ Len(calls) < MaxSends
    /\ \E r \in SendOutcomes(method, CallArg(parameters), CallFlags) :
        /\ wbuf' = r.wbuf
        /\ werr' = r.werr
        /\ wireOut' = r.wireOut
        /\ IF r.err = "nil"
           THEN /\ calls' = Append(calls, [method |-> method, arg |-> CallArg(parameters),
                                           flags |-> CallFlags, via |-> "Call"])
                /\ cur' = [k |-> Len(calls) + 1, arg |-> CallArg(parameters),
                           nwire |-> Len(wireOut)]
                /\ pc' = "call_receive"
                /\ last' = last
           ELSE /\ last' = [NoResult EXCEPT !.op = "Call", !.err = r.err,
                                            !.arg = CallArg(parameters),
                                            !.wrote = Len(r.wireOut) - Len(wireOut)]
                /\ pc' = "returned"
                /\ UNCHANGED <<calls, cur>>
    /\ UNCHANGED <<conn, rbuf, wireIn, peerOpen, nframes, nread, rvLog, out>>

\* c.Close(): c.conn.Close(), which fails on a connection already closed; what
\* had arrived and was not read from c.conn is discarded with the socket
Close ==
    /\ pc = "idle"
    /\ conn' = "closed"
    /\ wireIn' = <<>>
    /\ last' = [NoResult EXCEPT !.op = "Close",
                                !.err = IF conn = "closed" THEN "io" ELSE "nil"]
    /\ pc' = "returned"
    /\ UNCHANGED <<wbuf, werr, rbuf, wireOut, peerOpen, nframes, calls,
                   nread, rvLog, cur, out>>

\* the caller has looked at the result and goes on
Resume ==
    /\ pc = "returned"
    /\ pc' = "idle"
    /\ last' = NoResult
    /\ out' = "unset"
    /\ UNCHANGED <<conn, wbuf, werr, rbuf, wireOut, wireIn, peerOpen, nframes, calls,
                   nread, rvLog, cur>>

----------------------------------------------------------------------------
(* The service at the other end: it writes reply frames and may go away. *)

ReplyShapes == {"params", "continues", "error", "errorOnly", "empty", "bad", "junk"}

PlainShapes == {"params"}

Tok(k) == "{n:" \o ToString(k) \o "}"

ReplyBody(shape, k) ==
    CASE shape = "params" -> << <<"parameters", Tok(k)>> >>
      [] shape = "continues" -> << <<"parameters", Tok(k)>>, <<"continues", "true">> >>
      [] shape = "error" -> << <<"error", "org.example.Boom">>, <<"parameters", Tok(k)>> >>
      [] shape = "errorOnly" -> << <<"error", "org.example.Boom">> >>
      [] shape = "notFound" -> << <<"error", "org.varlink.resolver.InterfaceNotFound">> >>
      [] shape = "bad" -> << <<"parameters", "bad">> >>
      [] shape = "badContinues" -> << <<"parameters", "bad">>, <<"continues", "true">> >>
      [] OTHER -> <<>>

ReplyFrame(shape, k) ==
    IF shape = "junk" THEN <<Junk(k), Nul(k)>> ELSE <<Json(ReplyBody(shape, k), k), Nul(k)>>

\* the service writes its next reply frame
PeerReply(shape) ==
    /\ peerOpen
    /\ conn = "open"
    /\ nframes < MaxFrames
    /\ nframes - nread < MaxInFlight
    /\ wireIn' = wireIn \o ReplyFrame(shape, nframes + 1)
    /\ nframes' = nframes + 1
    /\ UNCHANGED <<conn, wbuf, werr, rbuf, wireOut, peerOpen, calls, nread, rvLog,
                   pc, cur, out, last>>

\* the service closes its end
PeerClose ==
    /\ peerOpen
    /\ peerOpen' = FALSE
    /\ UNCHANGED <<conn, wbuf, werr, rbuf, wireOut, wireIn, nframes, calls, nread,
                   rvLog, pc, cur, out, last>>

----------------------------------------------------------------------------
(* The interface description language: varlink/service.go.  Texts are      *)
(* sequences of characters.                                                 *)

Lower == {"a", "b", "c", "d", "e", "f", "g", "h", "i", "j", "k", "l", "m", "n", "o", "p", "q", "r", "s", "t", "u", "v", "w", "x", "y", "z"}

Upper == {"A", "B", "C", "D", "E", "F", "G", "H", "I", "J", "K", "L", "M", "N", "O", "P", "Q", "R", "S", "T", "U", "V", "W", "X", "Y", "Z"}

Digit == {"0", "1", "2", "3", "4", "5", "6", "7", "8", "9"}

NoChars == <<>>

\* a nil *Type
NilType == [kind |-> "nil", elem |-> <<>>, alias |-> NoChars, fields |-> <<>>]

BaseType(kind) == [kind |-> kind, elem |-> <<>>, alias |-> NoChars, fields |-> <<>>]

\* &Type{Kind: Array, ElementType: t}, also for a nil t
ArrayType(t) == [kind |-> "Array", elem |-> <<t>>, alias |-> NoChars, fields |-> <<>>]

AliasType(name) == [kind |-> "Alias", elem |-> <<>>, alias |-> name, fields |-> <<>>]

StructType(fields) == [kind |-> "Struct", elem |-> <<>>, alias |-> NoChars, fields |-> fields]

\* the parser: position, lastComment, and whether it has panicked (a slice of
\* the input out of range)
NewParser == [pos |-> 0, lastComment |-> NoChars, panic |-> FALSE]

\* p.next(): the character at the position, -1 ("EOF") past the end
CharAt(in, pos) == IF pos >= 0 /\ pos < Len(in) THEN in[pos + 1] ELSE "EOF"

Skip(p, n) == [p EXCEPT !.pos = p.pos + n]

\* p.input[start:end] is in range
SliceOk(in, start, end) == 0 <= start /\ start <= end /\ end <= Len(in)

Slice(in, start, end) == SubSeq(in, start + 1, end)

Panicked(p) == [p EXCEPT !.panic = TRUE]

\* LET x == v IN F(x), with v evaluated once
Bind(v, F(_)) == CHOOSE r \in {F(x) : x \in {v}} : TRUE

\* for { char := p.next(); if char is not in class { p.backup(); break } }:
\* the first position from pos on whose character is not in class
Scan(in, pos, class) ==
    IF CharAt(in, pos) \notin class THEN pos
    ELSE CHOOSE end \in (pos + 1)..Len(in) :
            /\ \A i \in pos..(end - 1) : CharAt(in, i) \in class
            /\ CharAt(in, end) \notin class

\* the scanning readers: the characters of class from the position on
ReadToken(in, p0, class) ==
    Bind(p0, LAMBDA p :
    IF p.panic THEN [p |-> p, v |-> NoChars]
    ELSE Bind(Scan(in, p.pos, class), LAMBDA end :
         IF SliceOk(in, p.pos, end)
         THEN [p |-> [p EXCEPT !.pos = end], v |-> Slice(in, p.pos, end)]
         ELSE [p |-> Panicked(p), v |-> NoChars]))

RECURSIVE ScanLine(_, _)
\* for { c := p.next(); if c < 0 || c == '\n' { p.backup(); break } }
ScanLine(in, pos) ==
    IF CharAt(in, pos) \in {"EOF", "\n"} THEN pos ELSE ScanLine(in, pos + 1)

RECURSIVE Advance(_, _)
\* p.advance(): skips spaces, newlines (which reset lastComment) and comments
\* (which are added to lastComment); the caller tests position < len(input)
Advance(in, p0) ==
    Bind(p0, LAMBDA p :
    IF p.panic THEN p
    ELSE LET char == CharAt(in, p.pos) IN
         IF char = "\n" THEN Advance(in, [p EXCEPT !.pos = p.pos + 1, !.lastComment = NoChars])
         ELSE IF char = " " THEN Advance(in, Skip(p, 1))
         ELSE IF char = "#"
         THEN Bind(ScanLine(in, p.pos + 2), LAMBDA end :
              IF SliceOk(in, p.pos + 2, end)
              THEN Advance(in, [p EXCEPT
                     !.pos = end + 1,
                     !.lastComment = (IF Len(p.lastComment) > 0
                                      THEN p.lastComment \o <<"\n">> ELSE NoChars)
                                     \o Slice(in, p.pos + 2, end)])
              ELSE Panicked(p))
         ELSE p)

AtInput(in, p) == p.pos < Len(in)

RECURSIVE AdvanceOnLine(_, _)
AdvanceOnLine(in, p0) ==
    Bind(p0, LAMBDA p :
    IF CharAt(in, p.pos) = " " THEN AdvanceOnLine(in, Skip(p, 1)) ELSE p)

ReadKeyword(in, p) == ReadToken(in, p, Lower)

ReadTypeName(in, p) == ReadToken(in, p, Upper \cup Lower \cup Digit)

RECURSIVE Split(_, _)
\* strings.Split(s, sep) for a one-character sep
Split(s0, sep) ==
    Bind(s0, LAMBDA s :
    IF \E i \in 1..Len(s) : s[i] = sep
    THEN LET i == CHOOSE i \in 1..Len(s) : s[i] = sep /\ \A j \in 1..(i - 1) : s[j] # sep
         IN <<SubSeq(s, 1, i - 1)>> \o Split(SubSeq(s, i + 1, Len(s)), sep)
    ELSE <<s>>)

\* a check that leaves out the segments' first and last characters
NameOk_AnyEnds(name) ==
    /\ Len(name) >= 3
    /\ Len(name) <= 255
    /\ \A parts \in {Split(name, ".")} :
        /\ Len(parts) >= 2
        /\ \A i \in 1..Len(parts) : Len(parts[i]) # 0

NameOk(name) ==
    /\ Len(name) >= 3
    /\ Len(name) <= 255
    /\ \A parts \in {Split(name, ".")} :
        /\ Len(parts) >= 2
        /\ \A i \in 1..Len(parts) :
            /\ Len(parts[i]) # 0
            /\ parts[i][1] # "-"
            /\ parts[i][Len(parts[i])] # "-"

ReadInterfaceName(in, p) ==
    Bind(ReadToken(in, p, Lower \cup {"-", "."}), LAMBDA r :
    IF NameOk(r.v) THEN r ELSE [p |-> r.p, v |-> NoChars])

ReadFieldName(in, p0) ==
    Bind(p0, LAMBDA p :
    IF CharAt(in, p.pos) \notin Lower \cup {"_"} THEN [p |-> p, v |-> NoChars]
    ELSE Bind(Scan(in, p.pos + 1, Lower \cup Digit \cup {"_"}), LAMBDA end :
         [p |-> [p EXCEPT !.pos = end], v |-> Slice(in, p.pos, end)]))

\* the switch of readType: t stays nil for any other lowercase word
KeywordType(keyword) ==
    IF keyword = <<"b", "o", "o", "l">> THEN BaseType("Bool")
    ELSE IF keyword = <<"i", "n", "t">> THEN BaseType("Int")
    ELSE IF keyword = <<"f", "l", "o", "a", "t">> THEN BaseType("Float")
    ELSE IF keyword = <<"s", "t", "r", "i", "n", "g">> THEN BaseType("String")
    ELSE NilType

\* a readType that takes a second []
ArraySuffix_Twice(in, p, t) ==
    IF CharAt(in, p.pos) = "["
    THEN IF CharAt(in, p.pos + 1) = "]"
         THEN IF CharAt(in, p.pos + 2) = "[" /\ CharAt(in, p.pos + 3) = "]"
              THEN [p |-> Skip(p, 4), v |-> ArrayType(ArrayType(t))]
              ELSE [p |-> Skip(p, 2), v |-> ArrayType(t)]
         ELSE [p |-> Skip(p, 2), v |-> NilType]
    ELSE [p |-> p, v |-> t]

\* the end of readType: one optional []
ArraySuffix(in, p, t) ==
    IF CharAt(in, p.pos) = "["
    THEN IF CharAt(in, p.pos + 1) = "]"
         THEN [p |-> Skip(p, 2), v |-> ArrayType(t)]
         ELSE [p |-> Skip(p, 2), v |-> NilType]
    ELSE [p |-> p, v |-> t]

RECURSIVE ReadType(_, _), ReadStructType(_, _), ReadFields(_, _, _)

\* the loop of readStructType, one field per round
ReadFields(in, p0, fields) ==
    Bind(Advance(in, p0), LAMBDA p1 :
    IF p1.panic THEN [p |-> p1, v |-> NilType]
    ELSE
    Bind(ReadFieldName(in, p1), LAMBDA name :
    IF name.v = NoChars THEN [p |-> name.p, v |-> NilType]
    ELSE Bind(Advance(in, name.p), LAMBDA p2 :
         IF CharAt(in, p2.pos) # ":" THEN [p |-> Skip(p2, 1), v |-> NilType]
         ELSE Bind(ReadType(in, Advance(in, Skip(p2, 1))), LAMBDA t :
              IF t.v.kind = "nil" THEN [p |-> t.p, v |-> NilType]
              ELSE Bind(Advance(in, t.p), LAMBDA p4 :
                   Bind(Append(fields, [name |-> name.v, type |-> t.v]), LAMBDA all :
                   LET char == CharAt(in, p4.pos)
                   IN IF char = "," THEN ReadFields(in, Skip(p4, 1), all)
                      ELSE IF char = ")" THEN [p |-> Skip(p4, 1), v |-> StructType(all)]
                      ELSE [p |-> Skip(p4, 1), v |-> NilType]))))))

ReadStructType(in, p0) ==
    Bind(p0, LAMBDA p :
    IF CharAt(in, p.pos) # "(" THEN [p |-> p, v |-> NilType]
    ELSE IF CharAt(in, p.pos + 1) = ")" THEN [p |-> Skip(p, 2), v |-> StructType(<<>>)]
    ELSE ReadFields(in, Skip(p, 1), <<>>))

ReadType(in, p) ==
    Bind(ReadKeyword(in, p), LAMBDA keyword :
    IF keyword.v # NoChars THEN ArraySuffix(in, keyword.p, KeywordType(keyword.v))
    ELSE Bind(ReadTypeName(in, keyword.p), LAMBDA name :
         IF name.v # NoChars THEN ArraySuffix(in, name.p, AliasType(name.v))
         ELSE Bind(ReadStructType(in, name.p), LAMBDA t :
              IF t.v.kind = "nil" THEN [p |-> t.p, v |-> NilType]
              ELSE ArraySuffix(in, t.p, t.v))))

\* an *Interface under construction: members in declaration order, and the
\* three maps from a name to the member stored under it (its place in members)
NoMap == [n \in {} |-> 0]

EmptyInterface ==
    [status |-> "ok", name |-> NoChars, description |-> NoChars, members |-> <<>>,
     aliases |-> NoMap, methods |-> NoMap, errors |-> NoMap]

\* NewInterface returned nil, or never returned
NilInterface == [EmptyInterface EXCEPT !.status = "nil"]

PanicInterface == [EmptyInterface EXCEPT !.status = "panic"]

Member(kind, name, description, t1, t2) ==
    [kind |-> kind, name |-> name, description |-> description, t1 |-> t1, t2 |-> t2]

\* m[name] = place
Store(m, name, place) ==
    [n \in DOMAIN m \cup {name} |-> IF n = name THEN place ELSE m[n]]

\* iface.Members = append(iface.Members, x); iface.<index>[x.Name] = x
AddMember(iface, member) ==
    LET place == Len(iface.members) + 1
        with == [iface EXCEPT !.members = Append(iface.members, member)]
    IN IF member.kind = "type" THEN [with EXCEPT !.aliases = Store(iface.aliases, member.name, place)]
       ELSE IF member.kind = "method" THEN [with EXCEPT !.methods = Store(iface.methods, member.name, place)]
       ELSE [with EXCEPT !.errors = Store(iface.errors, member.name, place)]

Failed(p) == [p |-> p, v |-> NilInterface]

\* the member declared, added to the interface
Declared(iface, kind, name, description, t1, t2) ==
    Bind(Member(kind, name, description, t1, t2), LAMBDA member : AddMember(iface, member))

RECURSIVE ReadMembers(_, _, _)
\* the loop of readInterface, one member per round
ReadMembers(in, p0, iface0) ==
    Bind(Advance(in, p0), LAMBDA p :
    Bind(iface0, LAMBDA iface :
    IF p.panic THEN Failed(p)
    ELSE IF ~AtInput(in, p) THEN [p |-> p, v |-> iface]
    ELSE
    Bind(ReadKeyword(in, p), LAMBDA keyword :
    IF keyword.v \notin {<<"t", "y", "p", "e">>, <<"m", "e", "t", "h", "o", "d">>, <<"e", "r", "r", "o", "r">>}
    THEN Failed(keyword.p)
    ELSE
    Bind(Advance(in, keyword.p), LAMBDA p1 :
    Bind(ReadTypeName(in, p1), LAMBDA name :
    IF name.v = NoChars THEN Failed(name.p)
    ELSE IF keyword.v = <<"t", "y", "p", "e">>
    THEN Bind(ReadType(in, Advance(in, name.p)), LAMBDA t :
         IF t.v.kind = "nil" THEN Failed(t.p)
         ELSE ReadMembers(in, t.p,
                Declared(iface, "type", name.v, p1.lastComment, t.v, NilType)))
    ELSE IF keyword.v = <<"m", "e", "t", "h", "o", "d">>
    THEN Bind(ReadType(in, Advance(in, name.p)), LAMBDA tin :
         IF tin.v.kind = "nil" THEN Failed(tin.p)
         ELSE Bind(Advance(in, tin.p), LAMBDA p3 :
              IF CharAt(in, p3.pos) # "-" \/ CharAt(in, p3.pos + 1) # ">"
              THEN Failed(Skip(p3, 2))
              ELSE Bind(ReadType(in, Advance(in, Skip(p3, 2))), LAMBDA tout :
                   IF tout.v.kind = "nil" THEN Failed(tout.p)
                   ELSE ReadMembers(in, tout.p,
                          Declared(iface, "method", name.v, p1.lastComment, tin.v, tout.v)))))
    ELSE Bind(ReadType(in, AdvanceOnLine(in, name.p)), LAMBDA t :
         ReadMembers(in, t.p,
           Declared(iface, "error", name.v, p1.lastComment, t.v, NilType))))))))

ReadInterface(in, p) ==
    Bind(ReadKeyword(in, p), LAMBDA keyword :
    IF keyword.v # <<"i", "n", "t", "e", "r", "f", "a", "c", "e">> THEN Failed(keyword.p)
    ELSE Bind(Advance(in, keyword.p), LAMBDA p1 :
         Bind(ReadInterfaceName(in, p1), LAMBDA name :
         IF name.v = NoChars THEN Failed(name.p)
         ELSE ReadMembers(in, name.p,
                [EmptyInterface EXCEPT !.description = p1.lastComment, !.name = name.v]))))

\* NewInterface(description): the interface, nil, or a panic
NewInterface(in) ==
    Bind(ReadInterface(in, Advance(in, NewParser)), LAMBDA r :
    IF r.p.panic THEN PanicInterface
    ELSE IF r.v.status = "nil" THEN NilInterface
    ELSE Bind(Advance(in, r.p), LAMBDA p :
         IF p.panic THEN PanicInterface
         ELSE IF AtInput(in, p) THEN NilInterface
         ELSE r.v))

----------------------------------------------------------------------------
(* Interface.DefaultValue.  A value is what the Go interface{} holds: a     *)
(* bool, an int, a float64, a string, an empty slice, a map from field      *)
(* names to values, or nil; k is the Go type and v the value as JSON shows  *)
(* it.  A call that re-enters an alias it is resolving recurses without     *)
(* bound and returns nothing.                                               *)

Null == [k |-> "nil", v |-> "null"]

Unbounded == [k |-> "unbounded", v |-> ""]

EmptyArray == [k |-> "array", v |-> <<>>]

MapValue(m) == [k |-> "map", v |-> m]

\* a generator whose zero values are all the empty string
ZeroOf_AllStrings(kind) == [k |-> "string", v |-> ""]

\* return false; return 0; return 0.0; return ""
ZeroOf(kind) ==
    CASE kind = "Bool" -> [k |-> "bool", v |-> "false"]
      [] kind = "Int" -> [k |-> "int", v |-> "0"]
      [] kind = "Float" -> [k |-> "float64", v |-> "0.0"]
      [] kind = "String" -> [k |-> "string", v |-> ""]

\* a generator that fails on an unknown alias
AbsentAlias_Fails == [k |-> "panic", v |-> ""]

\* if alias == nil { return nil }
AbsentAlias == Null

\* v[field.Name] = ... for the fields in order: a later field of the same
\* name overwrites an earlier one
FieldMap(fields, vals) ==
    [n \in {fields[i].name : i \in 1..Len(fields)} |->
        vals[CHOOSE i \in 1..Len(fields) :
                /\ fields[i].name = n
                /\ \A j \in (i + 1)..Len(fields) : fields[j].name # n]]

\* a DefaultValue that makes the default of an array's element type
ElementsMade_One(t) == t.elem

\* make([]interface{}, 0): the elements whose default is made for an array
ElementsMade(t) == <<>>

RECURSIVE DefaultIn(_, _, _)
\* i.DefaultValue(t), called while the aliases in open are being resolved
DefaultIn(iface, t0, open) ==
    Bind(t0, LAMBDA t :
    CASE t.kind \in {"Bool", "Int", "Float", "String"} -> ZeroOf(t.kind)
      [] t.kind = "Array" ->
            IF ElementsMade(t) = <<>> THEN EmptyArray
            ELSE DefaultIn(iface, ElementsMade(t)[1], open)
      [] t.kind = "Struct" ->
            Bind([i \in 1..Len(t.fields) |-> DefaultIn(iface, t.fields[i].type, open)],
                 LAMBDA vals :
                 IF \E i \in 1..Len(vals) : vals[i].k = "unbounded" THEN Unbounded
                 ELSE MapValue(FieldMap(t.fields, vals)))
      [] t.kind = "Alias" ->
            IF t.alias \notin DOMAIN iface.aliases THEN AbsentAlias
            ELSE IF t.alias \in open THEN Unbounded
            ELSE DefaultIn(iface, iface.members[iface.aliases[t.alias]].t1,
                           open \cup {t.alias})
      [] OTHER -> [k |-> "panic", v |-> ""])

DefaultValue(iface, t) == DefaultIn(iface, t, {})

----------------------------------------------------------------------------
(* Interface.String: the text written to the buffer, or a panic (a nil     *)
(* *Type dereferenced).                                                     *)

Text(s) == [panic |-> FALSE, s |-> s]

NoText == [panic |-> TRUE, s |-> NoChars]

\* a followed by b
Then(a, b) ==
    Bind(a, LAMBDA x :
    IF x.panic THEN NoText
    ELSE Bind(b, LAMBDA y : IF y.panic THEN NoText ELSE Text(x.s \o y.s)))

RECURSIVE WriteLines(_)
WriteLines(lines) ==
    IF lines = <<>> THEN NoChars
    ELSE <<"#", " ">> \o Head(lines) \o <<"\n">> \o WriteLines(Tail(lines))

WriteComment(comment) ==
    IF Len(comment) = 0 THEN NoChars ELSE WriteLines(Split(comment, "\n"))

RECURSIVE WriteType(_, _), WriteFields(_, _, _)

WriteFields(fields, i, multiline) ==
    IF i > Len(fields) THEN Text(NoChars)
    ELSE Then(Text((IF i > 1 THEN (IF multiline THEN <<",">> ELSE <<",", " ">>) ELSE NoChars)
                   \o (IF multiline THEN <<"\n", " ", " ">> ELSE NoChars)
                   \o fields[i].name \o <<":", " ">>),
              Then(WriteType(fields[i].type, multiline),
                   WriteFields(fields, i + 1, multiline)))

WriteType(t, multiline) ==
    IF t.kind = "nil" THEN NoText
    ELSE IF t.kind = "Bool" THEN Text(<<"b", "o", "o", "l">>)
    ELSE IF t.kind = "Int" THEN Text(<<"i", "n", "t">>)
    ELSE IF t.kind = "Float" THEN Text(<<"f", "l", "o", "a", "t">>)
    ELSE IF t.kind = "String" THEN Text(<<"s", "t", "r", "i", "n", "g">>)
    ELSE IF t.kind = "Array" THEN Then(WriteType(t.elem[1], multiline), Text(<<"[", "]">>))
    ELSE IF t.kind = "Struct"
    THEN Then(Text(<<"(">>),
              Then(WriteFields(t.fields, 1, multiline),
                   Text((IF multiline THEN <<"\n">> ELSE NoChars) \o <<")">>)))
    ELSE Text(t.alias)

WriteMember(member) ==
    Then(Text(<<"\n", "\n">> \o WriteComment(member.description)),
         IF member.kind = "type"
         THEN Then(Text(<<"t", "y", "p", "e", " ">> \o member.name \o <<" ">>), WriteType(member.t1, TRUE))
         ELSE IF member.kind = "method"
         THEN Then(Text(<<"m", "e", "t", "h", "o", "d", " ">> \o member.name),
                   Then(WriteType(member.t1, FALSE),
                        Then(Text(<<" ", "-", ">", " ">>), WriteType(member.t2, FALSE))))
         ELSE Then(Text(<<"e", "r", "r", "o", "r", " ">> \o member.name),
                   IF member.t1.kind # "nil"
                   THEN Then(Text(<<" ">>), WriteType(member.t1, TRUE))
                   ELSE Text(NoChars)))

RECURSIVE WriteMembers(_, _)
WriteMembers(members, i) ==
    IF i > Len(members) THEN Text(NoChars)
    ELSE Then(WriteMember(members[i]), WriteMembers(members, i + 1))

\* i.String()
String(iface) ==
    Then(Text(WriteComment(iface.description) \o <<"i", "n", "t", "e", "r", "f", "a", "c", "e", " ">> \o iface.name),
         WriteMembers(iface.members, 1))

----------------------------------------------------------------------------
(* Description texts: an interface header followed by member texts.  A     *)
(* member text is marked derivable when the grammar of the language        *)
(* derives it: keyword, name, and type expressions built from bool, int,   *)
(* float, string, structs, names of types and one [] each.  A lowercase    *)
(* word that is none of the four keywords is no type expression: readType  *)
(* takes none as the name of a type.                                        *)

Headers == <<
    <<"i", "n", "t", "e", "r", "f", "a", "c", "e", " ", "a", ".", "b">>,
    <<"#", " ", "d", "\n", "i", "n", "t", "e", "r", "f", "a", "c", "e", " ", "a", ".", "b">>
>>

MemberTexts == <<
    [derivable |-> TRUE,
     text |-> <<"\n", "t", "y", "p", "e", " ", "A", " ", "i", "n", "t">>],
    [derivable |-> TRUE,
     text |-> <<"\n", "t", "y", "p", "e", " ", "A", " ", "(", ")">>],
    [derivable |-> TRUE,
     text |-> <<"\n", "t", "y", "p", "e", " ", "B", " ", "(", "a", ":", " ", "i", "n", "t", ",", " ", "b", ":", " ", "A", "[", "]", ")">>],
    [derivable |-> FALSE,
     text |-> <<"\n", "t", "y", "p", "e", " ", "A", " ", "f", "o", "o", "[", "]">>],
    [derivable |-> TRUE,
     text |-> <<"\n", "m", "e", "t", "h", "o", "d", " ", "M", "(", ")", " ", "-", ">", " ", "(", ")">>],
    [derivable |-> TRUE,
     text |-> <<"\n", "m", "e", "t", "h", "o", "d", " ", "M", " ", "i", "n", "t", " ", "-", ">", " ", "b", "o", "o", "l">>],
    [derivable |-> TRUE,
     text |-> <<"\n", "e", "r", "r", "o", "r", " ", "E">>],
    [derivable |-> TRUE,
     text |-> <<"\n", "e", "r", "r", "o", "r", " ", "E", " ", "(", "a", ":", " ", "s", "t", "r", "i", "n", "g", ")">>],
    [derivable |-> FALSE,
     text |-> <<"\n", "e", "r", "r", "o", "r", " ", "E", " ", "f", "o", "o">>],
    [derivable |-> TRUE,
     text |-> <<"\n", "#", " ", "c">>],
    [derivable |-> TRUE,
     text |-> <<" ", "t", "y", "p", "e", " ", "A", " ", "b", "o", "o", "l">>],
    [derivable |-> FALSE,
     text |-> <<"\n", "t", "y", "p", "e", " ", "A", " ", "s", "t", "r", "i", "n", "g", "[", "]", "[", "]">>],
    [derivable |-> FALSE,
     text |-> <<"\n", "e", "r", "r", "o", "r", " ", "E", " ", "(", "a", ")">>],
    [derivable |-> FALSE,
     text |-> <<" ", "(", "a", ")">>],
    [derivable |-> FALSE,
     text |-> <<"\n", "f", "o", "o">>]
>>

NoRender == [panic |-> FALSE, s |-> NoChars]

NoChoice == [kind |-> "none"]

\* DefaultValue has not been called
NoDefault ==
    /\ dtype = NilType
    /\ dvalue = [k |-> "none", v |-> ""]

IdlNone ==
    /\ input = NoChars
    /\ nmembers = 0
    /\ malformed = FALSE
    /\ given = NoChoice
    /\ NoDefault
    /\ phase = "none"
    /\ parsed = NilInterface
    /\ rendered = NoRender
    /\ reparsed = NilInterface

IdlInit ==
    /\ input \in {Headers[i] : i \in 1..Len(Headers)}
    /\ nmembers = 0
    /\ malformed = FALSE
    /\ given = [kind |-> "members", members |-> <<>>]
    /\ NoDefault
    /\ phase = "build"
    /\ parsed = NilInterface
    /\ rendered = NoRender
    /\ reparsed = NilInterface

\* one more member text at the end of the description
AppendMember(i) ==
    /\ phase = "build"
    /\ nmembers < MaxMembers
    /\ input' = input \o MemberTexts[i].text
    /\ nmembers' = nmembers + 1
    /\ malformed' = (malformed \/ ~MemberTexts[i].derivable)
    /\ given' = [given EXCEPT !.members = Append(given.members, i)]
    /\ UNCHANGED <<dtype, dvalue, phase, parsed, rendered, reparsed>>

\* iface := NewInterface(input)
Parse ==
    /\ phase = "build"
    /\ parsed' = NewInterface(input)
    /\ phase' = "parsed"
    /\ UNCHANGED <<input, nmembers, malformed, given, dtype, dvalue, rendered, reparsed>>

\* text := iface.String()
Render ==
    /\ phase = "parsed"
    /\ parsed.status = "ok"
    /\ rendered' = String(parsed)
    /\ phase' = "rendered"
    /\ UNCHANGED <<input, nmembers, malformed, given, dtype, dvalue, parsed, reparsed>>

\* iface2 := NewInterface(text)
Reparse ==
    /\ phase = "rendered"
    /\ ~rendered.panic
    /\ reparsed' = NewInterface(rendered.s)
    /\ phase' = "reparsed"
    /\ UNCHANGED <<input, nmembers, malformed, given, dtype, dvalue, parsed, rendered>>

----------------------------------------------------------------------------
(* Resolve of main.go: it asks the resolver, over a connection of its own, *)
(* for the address of an interface.                                         *)

ResolverName == "org.varlink.resolver"

ResolverAddress == "unix:/run/org.varlink.resolver"

ResolveMethod == "org.varlink.resolver.Resolve"

InterfaceNames == {ResolverName, "org.example.more"}

Implementations == {"main.go", "part_003"}

\* a Resolve that asks the resolver for itself too
IsResolver_Never(iface) == FALSE

\* iface == "org.varlink.resolver"
IsResolver(iface) == iface = ResolverName

NoReturn == [address |-> "", err |-> "nil", name |-> ""]

\* reply.Address: the zero value until a reply was decoded into reply
Address(reply) == IF reply = "unset" THEN "" ELSE reply

\* a Resolve that returns a general error for a service error
ResolveReturns_DropsName(r, reply) ==
    IF r.err # "nil" THEN [address |-> "", err |-> "failed", name |-> ""]
    ELSE [address |-> Address(reply), err |-> "nil", name |-> ""]

\* if err != nil { return "", err }; return reply.Address, nil
ResolveReturns(r, reply) ==
    IF r.err # "nil" THEN [address |-> "", err |-> r.err, name |-> r.name]
    ELSE [address |-> Address(reply), err |-> "nil", name |-> ""]

\* no Resolve is running, and none has run
ResolveNone ==
    /\ riface = "none"
    /\ rimpl = "none"
    /\ rpc = "none"
    /\ rret = NoReturn
    /\ ndial = 0
    /\ nclose = 0
    /\ nresolve = 0

\* NewConnection or Dial has not returned
NoDial == [conn |-> "none", err |-> "nil", network |-> NoChars, endpoint |-> NoChars]

\* no connection is being made from an address
DialNone ==
    /\ address = NoChars
    /\ dret = NoDial

\* values of the Content-Type header; NoType: the header is not set
JsonType == "application/json; charset=utf-8"

TextType == "text/plain; charset=utf-8"

HtmlType == "text/html; charset=utf-8"

PlainType == "text/plain"

NoType == ""

\* the http.ResponseWriter a handler is called with: whether WriteHeader has
\* been called and with which code, the Content-Type in the map that Header()
\* returns, the Content-Type of the header block that is sent with the
\* status line, and the kind of body written
NewWriter ==
    [wroteHeader |-> FALSE, code |-> 0, header |-> NoType, sent |-> NoType,
     body |-> "none"]

\* no HTTP request is being served
HttpNone ==
    /\ handler = "none"
    /\ status = 0
    /\ writer = NewWriter

\* strings.SplitN(s, sep, 2): s, or what is before and behind the first sep
SplitN2(s, sep) ==
    IF \E i \in 1..Len(s) : s[i] = sep
    THEN LET i == CHOOSE i \in 1..Len(s) : s[i] = sep /\ \A j \in 1..(i - 1) : s[j] # sep
         IN <<SubSeq(s, 1, i - 1), SubSeq(s, i + 1, Len(s))>>
    ELSE <<s>>

UnixNetwork == <<"u", "n", "i", "x">>

TcpNetwork == <<"t", "c", "p">>

\* net.Dial(network, addr): an error for a network it does not know and for
\* an empty address, else the connection or an error, as the system has it
NetDial(network, addr) ==
    {[conn |-> IF e = "nil" THEN "open" ELSE "none", err |-> e,
      network |-> network, endpoint |-> addr] :
        e \in IF network \in {UnixNetwork, TcpNetwork} /\ addr # NoChars
              THEN {"nil", "dial"} ELSE {"dial"}}

\* a call that ends in a run-time panic, or returns an error before it dials
NotDialed(e) == {[NoDial EXCEPT !.err = e]}

\* part_001, NewConnection(address): words[1] is taken whatever the length of
\* words; what is behind the first ';' of the address part is dropped
NewConnectionOutcomes(a) ==
    LET words == SplitN2(a, ":") IN
    IF Len(words) < 2 THEN NotDialed("panic")
    ELSE NetDial(words[1], SplitN2(words[2], ";")[1])

\* part_003, Dial(address)
DialOutcomes(a) ==
    LET parts == Split(a, ":") IN
    IF Len(parts) # 2 THEN NotDialed("invalid address")
    ELSE IF parts[1] # UnixNetwork THEN NotDialed("unsupported transport")
    ELSE NetDial(parts[1], parts[2])

\* c, err := varlink.NewConnection(address)
NewConnection ==
    /\ rimpl = "part_001"
    /\ dret = NoDial
    /\ dret' \in NewConnectionOutcomes(address)
    /\ UNCHANGED <<connVars, idlVars, resolveVars, address, httpVars>>

\* c, err := varlink.Dial(address)
Dial ==
    /\ rimpl = "part_003"
    /\ dret = NoDial
    /\ dret' \in DialOutcomes(address)
    /\ UNCHANGED <<connVars, idlVars, resolveVars, address, httpVars>>

\* Resolve(iface) is called: no connection exists
ResolveInit ==
    /\ riface \in InterfaceNames
    /\ rimpl \in Implementations
    /\ rpc = "idle"
    /\ rret = NoReturn
    /\ ndial = 0
    /\ nclose = 0
    /\ nresolve = 0

\* the connection before NewConnection has made it
Undialed ==
    [conn |-> "none", wbuf |-> <<>>, werr |-> FALSE, rbuf |-> <<>>, wireOut |-> <<>>,
     wireIn |-> <<>>, peerOpen |-> TRUE, nframes |-> 0, calls |-> <<>>, nread |-> 0,
     rvLog |-> <<>>, pc |-> "idle", cur |-> NoCur, out |-> "unset", last |-> NoResult]

\* no connection has been made
IsUndialed ==
    /\ conn = Undialed.conn
    /\ wbuf = Undialed.wbuf
    /\ werr = Undialed.werr
    /\ rbuf = Undialed.rbuf
    /\ wireOut = Undialed.wireOut
    /\ wireIn = Undialed.wireIn
    /\ peerOpen = Undialed.peerOpen
    /\ nframes = Undialed.nframes
    /\ calls = Undialed.calls
    /\ nread = Undialed.nread
    /\ rvLog = Undialed.rvLog
    /\ pc = Undialed.pc
    /\ cur = Undialed.cur
    /\ out = Undialed.out
    /\ last = Undialed.last

\* the resolver's own name: the fixed address, at once
ResolveOwn ==
    /\ rpc = "idle"
    /\ IsResolver(riface)
    /\ rret' = [NoReturn EXCEPT !.address = ResolverAddress]
    /\ rpc' = "returned"
    /\ nresolve' = nresolve + 1
    /\ UNCHANGED <<connVars, riface, rimpl, ndial, nclose>>

\* varlink.NewConnection(varlink.ResolverAddress) fails: Resolve returns the error
ResolveDialFails ==
    /\ rpc = "idle"
    /\ ~IsResolver(riface)
    /\ ndial' = ndial + 1
    /\ rret' = [NoReturn EXCEPT !.err = "dial"]
    /\ rpc' = "returned"
    /\ nresolve' = nresolve + 1
    /\ UNCHANGED <<connVars, riface, rimpl, nclose>>

\* varlink.NewConnection(varlink.ResolverAddress) succeeds
ResolveDial ==
    /\ rpc = "idle"
    /\ ~IsResolver(riface)
    /\ ndial' = ndial + 1
    /\ conn' = "open"
    /\ rpc' = "dialed"
    /\ UNCHANGED <<wbuf, werr, rbuf, wireOut, wireIn, peerOpen, nframes, calls, nread,
                   rvLog, pc, cur, out, last, riface, rimpl, rret, nclose, nresolve>>

\* connection.Call("org.varlink.resolver.Resolve", &ResolveArgs{iface}, &reply)
ResolveCall ==
    /\ rpc = "dialed"
    /\ rimpl = "main.go"
    /\ Call(ResolveMethod, "{x}")
    /\ rpc' = "called"
    /\ UNCHANGED <<riface, rimpl, rret, ndial, nclose, nresolve>>

\* part_003, c.SendMessage(&call): the encoder writes the object to c.conn,
\* then one NUL is written; the first failing write ends it
SendMessage(body) ==
    UNION {IF o.err
           THEN {[err |-> "io", wireOut |-> wireOut \o SubSeq(<<Json(body, 1)>>, 1, o.n)]}
           ELSE {[err |-> IF z.err THEN "io" ELSE "nil",
                  wireOut |-> wireOut \o <<Json(body, 1)>> \o SubSeq(<<Nul(1)>>, 1, z.n)] :
                    z \in ConnWrite(<<Nul(1)>>)} :
           o \in ConnWrite(<<Json(body, 1)>>)}

\* part_003, connection.Call up to the read: CallArgs{Method, Parameters} is sent
ResolveSendMessage ==
    /\ rpc = "dialed"
    /\ rimpl = "part_003"
    /\ pc = "idle"
    /\ \E r \in SendMessage(MarshalCall(ResolveMethod, Direct("{x}"), 0)) :
        /\ wireOut' = r.wireOut
        /\ IF r.err = "nil"
           THEN /\ calls' = Append(calls, [method |-> ResolveMethod, arg |-> Direct("{x}"),
                                           flags |-> 0, via |-> "Call"])
                /\ cur' = [k |-> Len(calls) + 1, arg |-> Direct("{x}"),
                           nwire |-> Len(wireOut)]
                /\ pc' = "call_receive"
                /\ last' = last
           ELSE /\ last' = [NoResult EXCEPT !.op = "Call", !.err = r.err,
                                            !.arg = Direct("{x}"),
                                            !.wrote = Len(r.wireOut) - Len(wireOut)]
                /\ pc' = "returned"
                /\ UNCHANGED <<calls, cur>>
    /\ rpc' = "called"
    /\ UNCHANGED <<conn, wbuf, werr, rbuf, wireIn, peerOpen, nframes, nread, rvLog, out,
                   riface, rimpl, rret, ndial, nclose, nresolve>>

\* part_003, connection.Call after ReceiveMessage decoded the frame into r: the
\* Unmarshal error, the service error, *r.Parameters (a nil pointer when the
\* reply has no parameters: the call panics), the decoding of the parameters
CallReply(m, old) ==
    IF ~m.ok
    THEN {[err |-> "json", name |-> "", params |-> "nil", rv |-> 0, o |-> o] : o \in Kept(old)}
    ELSE IF m.Error # ""
    THEN {[err |-> "service", name |-> m.Error, params |-> "nil", rv |-> 0, o |-> o] :
            o \in Kept(old)}
    ELSE IF m.Parameters = "nil"
    THEN {[err |-> "panic", name |-> "", params |-> "nil", rv |-> 0, o |-> o] : o \in Kept(old)}
    ELSE IF m.Parameters = "bad"
    THEN {[err |-> "json", name |-> "", params |-> "nil", rv |-> 0, o |-> o] :
            o \in Decoded(m.Parameters, old)}
    ELSE {[err |-> "nil", name |-> "", params |-> "nil", rv |-> 0, o |-> o] :
            o \in Decoded(m.Parameters, old)}

\* part_003, c.ReceiveMessage(&r) has its frame: the rest of connection.Call.
\* What the reader had read past the frame is dropped with the reader.
ResolveReceiveMessage ==
    /\ rpc = "called"
    /\ rimpl = "part_003"
    /\ Receiving
    /\ DelimAt(rbuf) > 0
    /\ LET n == DelimAt(rbuf)
           frame == SubSeq(rbuf, 1, n)
           m == Unmarshal(SubSeq(frame, 1, Len(frame) - 1))
       IN \E r \in CallReply(m, out) :
                /\ out' = r.o.out
                /\ last' = Completed(r, frame, r.o.decoded)
                /\ rvLog' = Append(rvLog, r.rv)
    /\ rbuf' = <<>>
    /\ nread' = nread + 1
    /\ pc' = "returned"
    /\ cur' = NoCur
    /\ UNCHANGED <<conn, wbuf, werr, wireOut, wireIn, peerOpen, nframes, calls>>
    /\ UNCHANGED resolveVars

\* the reads of the running Call
ResolveReceive ==
    /\ rpc = "called"
    /\ \/ \E n \in 1..(2 * MaxInFlight) : ReceiveFill(n)
       \/ ReceiveFail
       \/ rimpl = "main.go" /\ ReceiveReturn
    /\ UNCHANGED resolveVars

\* Call has returned: Resolve returns, and the deferred connection.Close() runs
ResolveReturn ==
    /\ rpc = "called"
    /\ pc = "returned"
    /\ rret' = ResolveReturns(last, out)
    /\ conn' = "closed"
    /\ wireIn' = <<>>
    /\ nclose' = nclose + 1
    /\ rpc' = "returned"
    /\ nresolve' = nresolve + 1
    /\ UNCHANGED <<wbuf, werr, rbuf, wireOut, peerOpen, nframes, calls, nread,
                   rvLog, pc, cur, out, last, riface, rimpl, ndial>>

\* the resolver writes a frame, or goes away
ResolverActs ==
    /\ rpc \in {"dialed", "called"}
    /\ \/ \E s \in ReplyShapes : PeerReply(s)
       \/ PeerClose
    /\ UNCHANGED resolveVars

\* Resolve is called again, for any name
ResolveAgain ==
    /\ rpc = "returned"
    /\ nresolve < MaxResolves
    /\ riface' \in InterfaceNames
    /\ rimpl' \in Implementations
    /\ rpc' = "idle"
    /\ rret' = NoReturn
    /\ ndial' = 0
    /\ nclose' = 0
    /\ conn' = Undialed.conn
    /\ wbuf' = Undialed.wbuf
    /\ werr' = Undialed.werr
    /\ rbuf' = Undialed.rbuf
    /\ wireOut' = Undialed.wireOut
    /\ wireIn' = Undialed.wireIn
    /\ peerOpen' = Undialed.peerOpen
    /\ nframes' = Undialed.nframes
    /\ calls' = Undialed.calls
    /\ nread' = Undialed.nread
    /\ rvLog' = Undialed.rvLog
    /\ pc' = Undialed.pc
    /\ cur' = Undialed.cur
    /\ out' = Undialed.out
    /\ last' = Undialed.last
    /\ UNCHANGED nresolve

----------------------------------------------------------------------------
(* The HTTP bridge of main.go: the POST handler of serveRoot and             *)
(* serveInterface, as far as the status code and the Content-Type of the     *)
(* response go.                                                              *)

Handlers == {"serveRoot", "serveInterface"}

InterfaceNotFound == "org.varlink.resolver.InterfaceNotFound"

\* the dynamic type of the error Resolve has returned: Connection.Call gives
\* the *varlink.Error that receive made, the error of json.Unmarshal or that
\* of the connection; NewConnection gives the error of net.Dial
ErrorType(r) ==
    CASE r.err = "service" -> "*varlink.Error"
      [] r.err = "json" -> "*json.SyntaxError"
      [] OTHER -> "*net.OpError"

\* err.(*Error): Error is the type declared in main.go
AssertedType == "*main.Error"

\* if verr, ok := err.(*Error); ok { if verr.Name == "...InterfaceNotFound"
\* { 404 } }; 500
ResolveFailed(r) ==
    IF ErrorType(r) = AssertedType /\ r.name = InterfaceNotFound THEN 404 ELSE 500

\* the handler after Resolve gave an address: it connects, calls, and
\* answers; the status depends on the service called
Served(h) == IF h = "serveRoot" THEN {200, 500} ELSE {200, 400, 404, 500}

\* writer.WriteHeader(code): the status line and the headers set so far are
\* the response's from here on; a second call changes nothing
WriteHeader(w, code) ==
    IF w.wroteHeader THEN w
    ELSE [w EXCEPT !.wroteHeader = TRUE, !.code = code, !.sent = w.header]

\* writer.Header().Set("Content-Type", type): the handler's map is changed,
\* not a header block WriteHeader has taken
HeaderSet(w, type) == [w EXCEPT !.header = type]

\* http.DetectContentType on the first bytes of the body: the text of a
\* template is HTML, JSON text and any other text is plain text
DetectContentType(body) == IF body = "html" THEN HtmlType ELSE TextType

\* writer.Write(body), as json's Encoder, io.WriteString, fmt.Fprintln and
\* the templates call it: WriteHeader(200) unless it was called, and a
\* header block without Content-Type gets the type detected from the body
Write(w, body) ==
    Bind(WriteHeader(w, 200), LAMBDA h :
        [h EXCEPT !.body = body,
                  !.sent = IF h.sent = NoType THEN DetectContentType(body)
                           ELSE h.sent])

\* jsonError(writer, message, code)
jsonError(w, code) == Write(HeaderSet(WriteHeader(w, code), JsonType), "error")

\* the InterfaceNotFound branch of serveRoot: WriteHeader(404), Header().Set,
\* Encode(verr)
NotFoundReply(w) == Write(HeaderSet(WriteHeader(w, 404), JsonType), "error")

\* http.Error(writer, text, code) sets Content-Type, calls WriteHeader and
\* prints the text
HttpError(w, code) == Write(WriteHeader(HeaderSet(w, TextType), code), "text")

\* what the handler does to the writer when it answers with the code after
\* Resolve gave an address: serveRoot sets Content-Type and encodes the
\* reply, or calls jsonError; serveInterface writes the description as
\* text/plain or executes a template, or calls http.Error
Response(h, code) ==
    IF h = "serveRoot"
    THEN IF code = 200 THEN {Write(HeaderSet(NewWriter, JsonType), "json")}
         ELSE {jsonError(NewWriter, code)}
    ELSE IF code = 200
         THEN {Write(HeaderSet(NewWriter, PlainType), "text"),
               Write(NewWriter, "html")}
         ELSE {HttpError(NewWriter, code)}

\* what the handler does to the writer when Resolve has failed
FailureResponse(h, r) ==
    IF h = "serveRoot"
    THEN IF ResolveFailed(r) = 404 THEN NotFoundReply(NewWriter)
         ELSE jsonError(NewWriter, 500)
    ELSE HttpError(NewWriter, ResolveFailed(r))

\* the request is answered before Resolve is called: the body of the POST is
\* no JSON (400), the method of the request to serveInterface is not GET (405)
ServeRejects ==
    /\ rpc = "request"
    /\ status' = IF handler = "serveRoot" THEN 400 ELSE 405
    /\ writer' = IF handler = "serveRoot" THEN jsonError(writer, 400)
                                          ELSE HttpError(writer, 405)
    /\ rpc' = "done"
    /\ UNCHANGED <<connVars, riface, rimpl, rret, ndial, nclose, nresolve, handler>>

\* address, err := Resolve(iface)
ServeResolves ==
    /\ rpc = "request"
    /\ rpc' = "idle"
    /\ UNCHANGED <<connVars, riface, rimpl, rret, ndial, nclose, nresolve, handler, status,
                   writer>>

\* Resolve has returned: the rest of the handler
ServeReturns ==
    /\ rpc = "returned"
    /\ IF rret.err # "nil"
       THEN /\ status' = ResolveFailed(rret)
            /\ writer' = FailureResponse(handler, rret)
       ELSE \E code \in Served(handler) :
                /\ status' = code
                /\ writer' \in Response(handler, code)
    /\ rpc' = "done"
    /\ UNCHANGED <<connVars, riface, rimpl, rret, ndial, nclose, nresolve, handler>>

\* the resolver answers, also with the error InterfaceNotFound, or goes away
BridgeResolverActs ==
    /\ rpc \in {"dialed", "called"}
    /\ \/ \E s \in {"params", "notFound", "error", "junk"} : PeerReply(s)
       \/ PeerClose
    /\ UNCHANGED resolveVars

\* part_003, c.ReceiveMessage(&r) is called by the user of the package: a new
\* bufio.Reader is made on c.conn
ReceiveMessageStart ==
    /\ rimpl = "part_003"
    /\ pc = "idle"
    /\ cur' = [k |-> Len(calls), arg |-> Direct("nil"), nwire |-> Len(wireOut)]
    /\ pc' = "receive"
    /\ UNCHANGED <<conn, wbuf, werr, rbuf, wireOut, wireIn, peerOpen, nframes,
                   calls, nread, rvLog, out, last>>
    /\ UNCHANGED resolveVars

\* part_003, what ReceiveMessage returns for the frame ReadBytes gave it:
\* json.Unmarshal(out[:len(out)-1], reply), reply being a CallReply
MessageCode(m, old) ==
    IF ~m.ok
    THEN [err |-> "json", name |-> "", params |-> "nil", rv |-> 0, out |-> old]
    ELSE [err |-> "nil", name |-> m.Error, params |-> m.Parameters,
          rv |-> IF m.Continues THEN Continues ELSE 0,
          out |-> IF m.Parameters = "nil" THEN old ELSE m.Parameters]

\* part_003, ReadBytes of the new reader has found a NUL: ReceiveMessage
\* returns, and the reader goes with all it had read behind the NUL
ReceiveMessageReturn ==
    /\ rimpl = "part_003"
    /\ pc = "receive"
    /\ DelimAt(rbuf) > 0
    /\ LET n == DelimAt(rbuf)
           frame == SubSeq(rbuf, 1, n)
           r == MessageCode(Unmarshal(SubSeq(frame, 1, Len(frame) - 1)), out)
       IN /\ out' = r.out
          /\ last' = Completed(r, frame, r.err = "nil")
          /\ rvLog' = Append(rvLog, r.rv)
    /\ rbuf' = <<>>
    /\ nread' = nread + 1
    /\ pc' = "returned"
    /\ cur' = NoCur
    /\ UNCHANGED <<conn, wbuf, werr, wireOut, wireIn, peerOpen, nframes, calls>>
    /\ UNCHANGED resolveVars

----------------------------------------------------------------------------

ConnInit ==
    /\ conn = "open"
    /\ wbuf = <<>>
    /\ werr = FALSE
    /\ rbuf = <<>>
    /\ wireOut = <<>>
    /\ wireIn = <<>>
    /\ peerOpen = TRUE
    /\ nframes = 0
    /\ calls = <<>>
    /\ nread = 0
    /\ rvLog = <<>>
    /\ pc = "idle"
    /\ cur = NoCur
    /\ out = "unset"
    /\ last = NoResult

\* a connection just made by NewConnection
Init == ConnInit /\ IdlNone /\ ResolveNone /\ DialNone /\ HttpNone

\* The caller's steps that do not depend on what is sent or replied.
Steps ==
    \/ \E k \in 1..MaxSends : ReceiveStart(k)
    \/ \E n \in 1..(2 * MaxInFlight) : ReceiveFill(n)
    \/ ReceiveFail
    \/ ReceiveReturn
    \/ Close
    \/ Resume
    \/ PeerClose

SpecFlags == {0, More, More + Oneway}

\* Every reply shape of the service, against calls without parameters.
Next ==
    /\ \/ \E m \in Methods, f \in SpecFlags : Send(m, "nil", f)
       \/ \E m \in Methods : Call(m, "nil")
       \/ \E s \in ReplyShapes : PeerReply(s)
       \/ Steps
    /\ UNCHANGED <<idlVars, resolveVars, dialVars, httpVars>>

Spec == Init /\ [][Next]_vars

\* Every kind of call, against a service whose replies are plain.
NextSend ==
    /\ \/ \E m \in Methods, p \in ParamValues, f \in FlagValues : Send(m, p, f)
       \/ \E m \in Methods, p \in ParamValues : Call(m, p)
       \/ \E s \in PlainShapes : PeerReply(s)
       \/ Steps
    /\ UNCHANGED <<idlVars, resolveVars, dialVars, httpVars>>

SpecSend == Init /\ [][NextSend]_vars

\* A caller that sends a call only when the replies to its earlier calls have
\* been read to the end of their streams, and invokes any receive closure it
\* holds; a service that answers the calls without Oneway in order, each with
\* one stream of replies, and writes nothing else.
OrderFlags == {0, More, Oneway}

OrderShapes == {"params", "continues", "errorOnly"}

\* the reply streams read to their end: the frames read that did not continue
StreamsRead == Cardinality({i \in 1..Len(rvLog) : rvLog[i] # Continues})

\* the calls up to the k-th that ask for a reply
Rank(k) == Cardinality({i \in 1..k : ~HasFlag(calls[i].flags, Oneway)})

\* no reply to an earlier call is outstanding
Drained == StreamsRead >= Rank(Len(calls))

\* the service has a reply to write: the stream it is writing continues, or
\* a call without Oneway has no stream yet
Owed ==
    LET unread == SelectSeq(rbuf \o wireIn, LAMBDA u : u.t = "json")
        continues(u) == JsonMember(u.v, "continues", "false") = "true"
        written == StreamsRead
                    + Cardinality({i \in 1..Len(unread) : ~continues(unread[i])})
    IN \/ unread # <<>> /\ continues(unread[Len(unread)])
       \/ unread = <<>> /\ rvLog # <<>> /\ rvLog[Len(rvLog)] = Continues
       \/ written < Rank(Len(calls))

NextOrder ==
    /\ \/ \E m \in Methods, f \in OrderFlags : Drained /\ Send(m, "nil", f)
       \/ \E m \in Methods : Drained /\ Call(m, "nil")
       \/ \E s \in OrderShapes : Owed /\ PeerReply(s)
       \/ Steps
    /\ UNCHANGED <<idlVars, resolveVars, dialVars, httpVars>>

SpecOrder == Init /\ [][NextOrder]_vars

\* Sequential Calls: a caller that only uses Call, one after the other, on
\* parameters of every kind; a service that answers each call it has been
\* sent with one frame, of any shape, and may go away.
Answered == nframes >= Len(calls)

NextCalls ==
    /\ \/ \E m \in Methods, p \in ParamValues : Call(m, p)
       \/ \E s \in ReplyShapes : ~Answered /\ PeerReply(s)
       \/ \E n \in 1..Len(wireIn) : ReceiveFill(n)
       \/ ReceiveFail
       \/ ReceiveReturn
       \/ Close
       \/ Resume
       \/ PeerClose
    /\ UNCHANGED <<idlVars, resolveVars, dialVars, httpVars>>

SpecCalls == Init /\ [][NextCalls]_vars

\* The receive closure against every reply: one Send with More and any number
\* of receives, a service that writes frames of every shape, with parameters
\* that cannot be decoded into out among them, and may go away.
PayloadShapes == ReplyShapes \cup {"badContinues"}

NextPayload ==
    /\ \/ \E m \in Methods : Len(calls) < 1 /\ Send(m, "nil", More)
       \/ ReceiveStart(1)
       \/ \E n \in 1..Len(wireIn) : ReceiveFill(n)
       \/ ReceiveFail
       \/ ReceiveReturn
       \/ Resume
       \/ \E s \in PayloadShapes : PeerReply(s)
       \/ PeerClose
    /\ UNCHANGED <<idlVars, resolveVars, dialVars, httpVars>>

SpecPayload == Init /\ [][NextPayload]_vars

\* Reading frames: the receive closures of a part_001 Connection and the
\* ReceiveMessage of a part_003 connection, against a service that writes
\* frames at any time and a transport that hands over any number of the
\* bytes that have arrived.
Readers == {"part_001", "part_003"}

FrameShapes == {"params", "continues"}

InitFrames ==
    /\ ConnInit
    /\ IdlNone
    /\ riface = "none"
    /\ rimpl \in Readers
    /\ rpc = "none"
    /\ rret = NoReturn
    /\ ndial = 0
    /\ nclose = 0
    /\ nresolve = 0
    /\ DialNone
    /\ HttpNone

NextFrames ==
    \/ /\ rimpl = "part_001"
       /\ \/ \E m \in Methods : Send(m, "nil", More)
          \/ \E k \in 1..MaxSends : ReceiveStart(k)
          \/ ReceiveReturn
       /\ UNCHANGED <<idlVars, resolveVars, dialVars, httpVars>>
    \/ ReceiveMessageStart /\ UNCHANGED <<idlVars, dialVars, httpVars>>
    \/ ReceiveMessageReturn /\ UNCHANGED <<idlVars, dialVars, httpVars>>
    \/ /\ \/ \E n \in 1..Len(wireIn) : ReceiveFill(n)
          \/ ReceiveFail
          \/ Resume
          \/ \E s \in FrameShapes : PeerReply(s)
          \/ PeerClose
       /\ UNCHANGED <<idlVars, resolveVars, dialVars, httpVars>>

SpecFrames == InitFrames /\ [][NextFrames]_vars

\* NewInterface and Interface.String applied to description texts.
InitIdl == ConnInit /\ IdlInit /\ ResolveNone /\ DialNone /\ HttpNone

NextIdl ==
    /\ \/ \E i \in 1..Len(MemberTexts) : AppendMember(i)
       \/ Parse
       \/ Render
       \/ Reparse
    /\ UNCHANGED <<connVars, resolveVars, dialVars, httpVars>>

SpecIdl == InitIdl /\ [][NextIdl]_vars

\* NewInterface on "interface " and a name: every text of up to MaxNameLen
\* characters of NameChars, and some longer names.
NameChars == {"a", "-", ".", "A"}

InterfaceKeyword == <<"i", "n", "t", "e", "r", "f", "a", "c", "e", " ">>

\* a name of n characters: "a.aa...a"
LongName(n) == <<"a", ".">> \o [i \in 1..(n - 2) |-> "a"]

OrgExampleTest ==
    <<"o", "r", "g", ".", "e", "x", "a", "m", "p", "l", "e", ".", "t", "e", "s", "t">>

NameTexts ==
    UNION {[1..k -> NameChars] : k \in 0..MaxNameLen}
    \cup {OrgExampleTest, LongName(255), LongName(256),
          <<"a", ".", "b", "-">>, <<"a", "b", "c", "d", "e">>, <<"a", ".", "b", "1">>}

InitName ==
    /\ IsUndialed
    /\ ResolveNone
    /\ DialNone
    /\ HttpNone
    /\ input \in {InterfaceKeyword \o n : n \in NameTexts}
    /\ nmembers = 0
    /\ malformed = FALSE
    /\ given = NoChoice
    /\ NoDefault
    /\ phase = "build"
    /\ parsed = NilInterface
    /\ rendered = NoRender
    /\ reparsed = NilInterface

NextName == Parse /\ UNCHANGED <<connVars, resolveVars, dialVars, httpVars>>

SpecName == InitName /\ [][NextName]_vars

\* NewInterface on a description with one member, in which a base type with
\* up to MaxSuffixes [] stands where a type can stand.
BaseTexts == <<
    [text |-> <<"b", "o", "o", "l">>, type |-> BaseType("Bool")],
    [text |-> <<"i", "n", "t">>, type |-> BaseType("Int")],
    [text |-> <<"f", "l", "o", "a", "t">>, type |-> BaseType("Float")],
    [text |-> <<"s", "t", "r", "i", "n", "g">>, type |-> BaseType("String")],
    [text |-> <<"A">>, type |-> AliasType(<<"A">>)],
    [text |-> <<"(", ")">>, type |-> StructType(<<>>)],
    [text |-> <<"(", "a", ":", " ", "i", "n", "t", ")">>, type |-> StructType(<<[name |-> <<"a">>, type |-> BaseType("Int")]>>)]
>>

TypePositions == {"alias", "field", "in", "out", "error"}

RECURSIVE Suffixes(_)
Suffixes(k) == IF k = 0 THEN NoChars ELSE <<"[", "]">> \o Suffixes(k - 1)

\* the member that has the type expression e at the position
MemberWith(position, e) ==
    CASE position = "alias" -> <<"\n", "t", "y", "p", "e", " ", "T", " ">> \o e
      [] position = "field" -> <<"\n", "t", "y", "p", "e", " ", "T", " ", "(", "f", ":", " ">> \o e \o <<")">>
      [] position = "in" -> <<"\n", "m", "e", "t", "h", "o", "d", " ", "M", " ">> \o e \o <<" ", "-", ">", " ", "(", ")">>
      [] position = "out" -> <<"\n", "m", "e", "t", "h", "o", "d", " ", "M", "(", ")", " ", "-", ">", " ">> \o e
      [] position = "error" -> <<"\n", "e", "r", "r", "o", "r", " ", "E", " ">> \o e

TypeChoices ==
    {[kind |-> "type", base |-> b, suffixes |-> k, position |-> pos] :
        b \in 1..Len(BaseTexts), k \in 0..MaxSuffixes, pos \in TypePositions}

InitType ==
    /\ IsUndialed
    /\ ResolveNone
    /\ DialNone
    /\ HttpNone
    /\ given \in TypeChoices
    /\ input = Headers[1] \o MemberWith(given.position,
                                        BaseTexts[given.base].text \o Suffixes(given.suffixes))
    /\ nmembers = 1
    /\ malformed = (given.suffixes > 1)
    /\ NoDefault
    /\ phase = "build"
    /\ parsed = NilInterface
    /\ rendered = NoRender
    /\ reparsed = NilInterface

NextType == Parse /\ UNCHANGED <<connVars, resolveVars, dialVars, httpVars>>

SpecType == InitType /\ [][NextType]_vars

\* DefaultValue on the types of a parsed description: the header and up to
\* MaxDefaultMembers of these members, in any order.
DefaultMembers == <<
    <<"\n", "t", "y", "p", "e", " ", "A", " ", "(", "a", ":", " ", "b", "o", "o", "l", ",", " ", "b", ":", " ", "i", "n", "t", ",", " ", "c", ":", " ", "s", "t", "r", "i", "n", "g", "[", "]", ")">>,
    <<"\n", "t", "y", "p", "e", " ", "B", " ", "A">>,
    <<"\n", "t", "y", "p", "e", " ", "C", " ", "(", "x", ":", " ", "f", "l", "o", "a", "t", ",", " ", "y", ":", " ", "B", ",", " ", "z", ":", " ", "(", "s", ":", " ", "s", "t", "r", "i", "n", "g", ")", ")">>,
    <<"\n", "m", "e", "t", "h", "o", "d", " ", "M", "(", "p", ":", " ", "A", ",", " ", "q", ":", " ", "M", "i", "s", "s", "i", "n", "g", ")", " ", "-", ">", " ", "(", "r", ":", " ", "B", "[", "]", ")">>,
    <<"\n", "t", "y", "p", "e", " ", "D", " ", "(", "a", ":", " ", "i", "n", "t", ",", " ", "a", ":", " ", "b", "o", "o", "l", ")">>,
    <<"\n", "t", "y", "p", "e", " ", "A", " ", "A">>,
    <<"\n", "t", "y", "p", "e", " ", "A", " ", "B">>,
    <<"\n", "t", "y", "p", "e", " ", "E", " ", "(", "e", ":", " ", "E", ")">>,
    <<"\n", "t", "y", "p", "e", " ", "F", " ", "(", "f", ":", " ", "F", "[", "]", ")">>
>>

RECURSIVE Concat(_)
Concat(texts) == IF texts = <<>> THEN NoChars ELSE Head(texts) \o Concat(Tail(texts))

DefaultChoices ==
    {[kind |-> "default", members |-> ms] :
        ms \in UNION {[1..k -> 1..Len(DefaultMembers)] : k \in 0..MaxDefaultMembers}}

InitDefault ==
    /\ IsUndialed
    /\ ResolveNone
    /\ DialNone
    /\ HttpNone
    /\ given \in DefaultChoices
    /\ input = Headers[1] \o Concat([i \in 1..Len(given.members) |->
                                        DefaultMembers[given.members[i]]])
    /\ nmembers = Len(given.members)
    /\ malformed = FALSE
    /\ NoDefault
    /\ phase = "build"
    /\ parsed = NilInterface
    /\ rendered = NoRender
    /\ reparsed = NilInterface

\* the types of an interface's members and of their fields
TypesOf(iface) ==
    LET tops == UNION {{iface.members[i].t1, iface.members[i].t2} :
                        i \in 1..Len(iface.members)}
    IN (tops \cup UNION {{t.fields[i].type : i \in 1..Len(t.fields)} : t \in tops})
       \ {NilType}

\* v := iface.DefaultValue(t)
Default(t) ==
    /\ phase = "parsed"
    /\ parsed.status = "ok"
    /\ t \in TypesOf(parsed)
    /\ dtype' = t
    /\ dvalue' = DefaultValue(parsed, t)
    /\ phase' = "defaulted"
    /\ UNCHANGED <<input, nmembers, malformed, given, parsed, rendered, reparsed>>

NextDefault ==
    /\ \/ Parse
       \/ \E t \in TypesOf(parsed) : Default(t)
    /\ UNCHANGED <<connVars, resolveVars, dialVars, httpVars>>

SpecDefault == InitDefault /\ [][NextDefault]_vars

\* NewInterface applied to texts of any kind, put together from a header, a
\* declaration, '#', a space, a newline and a letter.
InputParts == <<
    Headers[1],
    <<"\n", "t", "y", "p", "e", " ", "A", " ", "i", "n", "t">>,
    <<"#">>,
    <<" ">>,
    <<"\n">>,
    <<"c">>
>>

Inputs ==
    {Concat([i \in 1..Len(ps) |-> InputParts[ps[i]]]) :
        ps \in UNION {[1..k -> 1..Len(InputParts)] : k \in 0..MaxInputParts}}

InitInput ==
    /\ IsUndialed
    /\ ResolveNone
    /\ DialNone
    /\ HttpNone
    /\ input \in Inputs
    /\ nmembers = 0
    /\ malformed = FALSE
    /\ given = NoChoice
    /\ NoDefault
    /\ phase = "build"
    /\ parsed = NilInterface
    /\ rendered = NoRender
    /\ reparsed = NilInterface

NextInput == Parse /\ UNCHANGED <<connVars, resolveVars, dialVars, httpVars>>

SpecInput == InitInput /\ [][NextInput]_vars

\* NewConnection and Dial applied to address texts put together from the
\* names of networks, the separators and a path.
AddressParts == <<UnixNetwork, TcpNetwork, <<":">>, <<";">>, <<"/", "a">>>>

Addresses ==
    {Concat([i \in 1..Len(ps) |-> AddressParts[ps[i]]]) :
        ps \in UNION {[1..k -> 1..Len(AddressParts)] : k \in 0..MaxAddressParts}}

InitDial ==
    /\ IsUndialed
    /\ IdlNone
    /\ riface = "none"
    /\ rimpl \in Readers
    /\ rpc = "none"
    /\ rret = NoReturn
    /\ ndial = 0
    /\ nclose = 0
    /\ nresolve = 0
    /\ address \in Addresses
    /\ dret = NoDial
    /\ HttpNone

NextDial == NewConnection \/ Dial

SpecDial == InitDial /\ [][NextDial]_vars

\* Resolve, against a resolver that may reply anything or go away.
InitResolve == IsUndialed /\ IdlNone /\ ResolveInit /\ DialNone /\ HttpNone

NextResolve ==
    /\ \/ ResolveOwn
       \/ ResolveDialFails
       \/ ResolveDial
       \/ ResolveCall
       \/ ResolveSendMessage
       \/ ResolveReceive
       \/ ResolveReceiveMessage
       \/ ResolveReturn
       \/ ResolverActs
       \/ ResolveAgain
    /\ UNCHANGED <<idlVars, dialVars, httpVars>>

SpecResolve == InitResolve /\ [][NextResolve]_vars

\* A request to the HTTP bridge, for the resolver's name or another.
InitBridge ==
    /\ IsUndialed
    /\ IdlNone
    /\ riface \in InterfaceNames
    /\ rimpl = "main.go"
    /\ rpc = "request"
    /\ rret = NoReturn
    /\ ndial = 0
    /\ nclose = 0
    /\ nresolve = 0
    /\ DialNone
    /\ handler \in Handlers
    /\ status = 0
    /\ writer = NewWriter

NextBridge ==
    \/ /\ \/ ServeRejects
          \/ ServeResolves
          \/ ServeReturns
       /\ UNCHANGED <<idlVars, dialVars>>
    \/ /\ \/ ResolveOwn
          \/ ResolveDialFails
          \/ ResolveDial
          \/ ResolveCall
          \/ ResolveReceive
          \/ ResolveReturn
          \/ BridgeResolverActs
       /\ UNCHANGED <<idlVars, dialVars, httpVars>>

SpecBridge == InitBridge /\ [][NextBridge]_vars

----------------------------------------------------------------------------
(* Properties of the connection (Spec, SpecSend).  A result is looked at    *)
(* in the state where its operation has just returned.                      *)

HasMember(body, key) == \E i \in 1..Len(body) : body[i][1] = key

ValueOf(body, key) == body[CHOOSE i \in 1..Len(body) : body[i][1] = key][2]

\* the error receive returns for a reply frame of the given shape
ErrorOf(shape) ==
    IF shape \in {"error", "errorOnly", "notFound"} THEN "service"
    ELSE IF shape = "junk" THEN "json"
    ELSE "nil"

Returned(ops) == pc = "returned" /\ last.op \in ops

\* C1: Send with both More and Oneway set returns an error and writes
\* nothing: the write buffer, the writer's error, the transport, the read
\* buffer and the connection are as they were before the call, and no call
\* is recorded.
C1_BothFlagsRejected ==
    [][(pc = "idle" /\ pc' = "returned" /\ last'.op = "Send"
          /\ HasFlag(last'.flags, More) /\ HasFlag(last'.flags, Oneway))
       => /\ last'.err = "org.varlink.InvalidParameter"
          /\ last'.wrote = 0
          /\ wbuf' = wbuf
          /\ werr' = werr
          /\ wireOut' = wireOut
          /\ rbuf' = rbuf
          /\ wireIn' = wireIn
          /\ conn' = conn
          /\ calls' = calls]_vars

\* C1, its case: the rejected Send follows a Send that has written a frame.
C1_RejectedAfterWrite ==
    /\ Returned({"Send"})
    /\ last.flags = More + Oneway
    /\ last.err = "org.varlink.InvalidParameter"
    /\ Len(calls) = 1
    /\ Len(wireOut) = 2

C3_KthReceiveKthFrame ==
    /\ (Returned({"receive"}) /\ last.units # <<>>) =>
          /\ \E shape \in ReplyShapes : last.units = ReplyFrame(shape, nread)
          /\ \A shape \in {"params", "continues"} :
                last.units = ReplyFrame(shape, nread) =>
                    /\ last.err = "nil"
                    /\ last.decoded
                    /\ out = Tok(nread)
                    /\ (last.rv = Continues) = (shape = "continues")
          /\ Len(rvLog) = nread
          /\ rvLog[nread] = last.rv
    /\ nread <= nframes
    /\ (nread = nframes /\ ~Receiving) => (rbuf = <<>> /\ wireIn = <<>>)

\* C3, its case: one call sent with More, replies continues, continues,
\* last; three receives have drained the stream.
C3_StreamDrained ==
    /\ Returned({"receive"})
    /\ Len(calls) = 1
    /\ calls[1].flags = More
    /\ rvLog = <<Continues, Continues, 0>>
    /\ last.units = ReplyFrame("params", 3)
    /\ rbuf = <<>>
    /\ wireIn = <<>>

\* C4: every operation that returns on a connection that Close had closed
\* before the operation began returns an error.
C4_ClosedConnectionFails ==
    [][(conn = "closed" /\ pc # "returned" /\ pc' = "returned")
       => last'.err # "nil"]_vars

\* C4, a case where it fails: receive returns a frame, without error, that
\* was in the read buffer when Close was called.
C4_ReceiveAfterClose ==
    /\ Returned({"receive"})
    /\ conn = "closed"
    /\ last.err = "nil"
    /\ last.units = ReplyFrame("params", 2)
    /\ last.decoded

\* the call object the caller's arguments stand for: parameters left out when
\* nil, more and oneway present exactly when their flag is set
CallObject(method, parameters, flags) ==
    << <<"method", method>> >>
    \o (IF parameters = "nil" THEN <<>> ELSE << <<"parameters", parameters>> >>)
    \o (IF HasFlag(flags, More) THEN << <<"more", "true">> >> ELSE <<>>)
    \o (IF HasFlag(flags, Oneway) THEN << <<"oneway", "true">> >> ELSE <<>>)

\* C8: the call object written for every Send and every Call has more and
\* oneway exactly as the flags say and has no parameters member when the
\* caller passed nil.
C8_CallEnvelope ==
    \A k \in 1..Len(calls) :
        /\ Len(wireOut) >= 2 * k
        /\ wireOut[2 * k - 1].t = "json"
        /\ wireOut[2 * k - 1].v =
              CallObject(calls[k].method, calls[k].arg.v, calls[k].flags)

\* C8, a case where it fails: Call with nil parameters writes a call object
\* with the member parameters, null.
C8_CallWritesNull ==
    /\ Len(calls) = 1
    /\ calls[1].via = "Call"
    /\ calls[1].arg.v = "nil"
    /\ Len(wireOut) = 2
    /\ wireOut[1].v = << <<"method", calls[1].method>>, <<"parameters", "null">> >>

C10_CallIsSendThenReceive ==
    /\ pc = "call_receive" =>
          /\ cur.k = Len(calls)
          /\ Len(wireOut) = 2 * cur.k
          /\ Len(wireOut) - cur.nwire = 2
          /\ ~HasMember(wireOut[2 * cur.k - 1].v, "more")
          /\ ~HasMember(wireOut[2 * cur.k - 1].v, "oneway")
    /\ Returned({"Call"}) =>
          \/ /\ last.wrote < 2
             /\ last.err \in {"io", "json"}
             /\ last.units = <<>>
          \/ /\ last.wrote = 2
             /\ ~HasMember(wireOut[Len(wireOut) - 1].v, "more")
             /\ ~HasMember(wireOut[Len(wireOut) - 1].v, "oneway")
             /\ \/ last.units = <<>> /\ last.err = "io"
                \/ \E shape \in ReplyShapes :
                      /\ last.units = ReplyFrame(shape, nread)
                      /\ last.err = ErrorOf(shape)

\* C10, its case: a Call has returned the second reply frame, the first
\* having gone to the receive of an earlier Send.
C10_CallReturnedReply ==
    /\ Returned({"Call"})
    /\ last.err = "nil"
    /\ last.wrote = 2
    /\ nread = 2
    /\ last.units = ReplyFrame("params", 2)
    /\ out = Tok(2)

\* a receive returns a frame in this step
ReceiveReturns == Receiving /\ pc' = "returned" /\ nread' = nread + 1

\* C19 as stated: a receive that returns a frame returns the frame whose place
\* on the wire is the number of frames returned so far, and, the caller never
\* sending while a reply is outstanding, the frame is in the reply stream of
\* the call whose Send made the closure, the streams going to the calls
\* without Oneway in order.
C19_ClosureGetsOwnReplies ==
    [][ReceiveReturns =>
          /\ \E shape \in OrderShapes : last'.units = ReplyFrame(shape, nread')
          /\ ~HasFlag(calls[cur.k].flags, Oneway)
          /\ StreamsRead + 1 = Rank(cur.k)]_vars

\* C19: a receive that returns a frame returns the frame whose place on the
\* wire is the number of frames returned so far; and, the caller never
\* sending while a reply is outstanding, a closure made for a call without
\* Oneway and invoked before its call's reply stream has ended returns a frame
\* of that stream.
C19_PositionalReplies ==
    [][ReceiveReturns =>
          /\ \E shape \in OrderShapes : last'.units = ReplyFrame(shape, nread')
          /\ (~HasFlag(calls[cur.k].flags, Oneway) /\ StreamsRead < Rank(cur.k)) =>
                StreamsRead + 1 = Rank(cur.k)]_vars

\* two calls, each read to the end of its stream before the next is sent: the
\* first has had two replies, the third frame went to the second call
C19_TwoStreamsInOrder ==
    /\ Returned({"receive"})
    /\ Len(calls) = 2
    /\ calls[1].flags = More
    /\ calls[2].via = "Send"
    /\ rvLog = <<Continues, 0, 0>>
    /\ last.units = ReplyFrame("params", 3)
    /\ out = Tok(3)

\* C20: sequential Calls against a service that answers each call with one
\* frame.  When the k-th Call returns with success or with a service Error,
\* k frames have been consumed in all, one for each Call, the frame this Call
\* consumed is the k-th the service wrote, its outcome is that frame's, a
\* success has decoded that frame's parameters, and nothing is left in the
\* reader or on the transport.
C20_SequentialCalls ==
    (Returned({"Call"}) /\ last.err \in {"nil", "service"}) =>
        /\ nread = Len(calls)
        /\ nframes = Len(calls)
        /\ \E shape \in ReplyShapes :
              /\ last.units = ReplyFrame(shape, Len(calls))
              /\ last.err = ErrorOf(shape)
              /\ shape \in {"params", "continues"} => out = Tok(Len(calls))
        /\ rbuf = <<>>
        /\ wireIn = <<>>

\* the second Call returns the service error of the second frame
C20_SecondCallSecondReply ==
    /\ Returned({"Call"})
    /\ Len(calls) = 2
    /\ nread = 2
    /\ last.err = "service"
    /\ last.units = ReplyFrame("error", 2)
    /\ rbuf = <<>>

\* C27: Send keeps no state of the calls and makes no in-flight check.  A
\* Send with valid flags and parameters that can be marshalled, on a writer
\* without error and an open connection to a service that is there, succeeds
\* and writes its frame whatever calls were sent before and whatever of their
\* replies has been read; and a receive closure that returns a frame,
\* whichever Send it came from and whatever was sent since, returns the next
\* frame on the wire.
C27_NoInFlightCheck ==
    [][/\ (/\ pc = "idle"
           /\ pc' = "returned"
           /\ last'.op = "Send"
           /\ ~FlagsInvalid(last'.flags)
           /\ Marshalable(last'.arg)
           /\ conn = "open" /\ peerOpen /\ ~werr) =>
              /\ last'.err = "nil"
              /\ last'.wrote = 2
              /\ Len(calls') = Len(calls) + 1
              /\ wireOut' = wireOut \o Frame(MarshalCall(calls'[Len(calls')].method,
                                                         last'.arg, last'.flags),
                                             Len(calls'))
       /\ (pc = "receive" /\ ReceiveReturns) =>
              last'.units = ReplyFrame("params", nread')]_vars

\* after a Send with More and a second Send, with no reply read, the closure
\* of the first Send runs and has a frame to return
C27_EarlierClosureAfterLaterSend ==
    /\ pc = "receive"
    /\ cur.k = 1
    /\ Len(calls) = 2
    /\ calls[1].flags = More
    /\ cur.nwire = 4
    /\ nread = 0
    /\ DelimAt(rbuf) > 0

\* C28: Call drops the Continues flag of its one receive.  When the receive
\* of a Call returns a frame, Call returns that frame's outcome (success for
\* a frame with continues true as for one without) and no flags, while the
\* receive itself had Continues exactly for a frame that continues; what was
\* written behind the frame stays in the reader and on the transport, so the
\* further frames of the stream are what the next Calls get.
C28_CallDropsContinues ==
    [][(pc = "call_receive" /\ ReceiveReturns) =>
          /\ \E shape \in ReplyShapes :
                /\ last'.units = ReplyFrame(shape, nread')
                /\ last'.err = ErrorOf(shape)
                /\ rvLog'[Len(rvLog')] = IF shape = "continues" THEN Continues ELSE 0
          /\ last'.op = "Call"
          /\ last'.rv = 0
          /\ rbuf' \o wireIn' = SubSeq(rbuf \o wireIn, 3, Len(rbuf \o wireIn))]_vars

\* the first Call got a frame that continues; the second Call has returned
\* the next frame of that stream as its reply
C28_NextCallGetsStream ==
    /\ Returned({"Call"})
    /\ Len(calls) = 2
    /\ calls[1].via = "Call"
    /\ rvLog = <<Continues, 0>>
    /\ last.err = "nil"
    /\ last.units = ReplyFrame("params", 2)
    /\ out = Tok(2)

\* what receive is to return for a frame of the shape: the error, and the
\* flags
FlagsOf(shape) == IF shape \in {"continues", "badContinues"} THEN Continues ELSE 0

\* C29: receive does not fail because of the parameters of a reply.  A frame
\* without error whose parameters cannot be decoded into out makes receive
\* return success, with Continues as the frame has it, and out is as it was
\* or holds what the decoder left; receive returns an error only when the
\* read failed (no frame), the frame is no JSON object (the envelope), or
\* the frame has an error name.
C29_PayloadNeverFails ==
    Returned({"receive"}) =>
        \/ last.units = <<>> /\ last.err = "io"
        \/ \E shape \in PayloadShapes :
              /\ last.units = ReplyFrame(shape, nread)
              /\ last.err = ErrorOf(shape)
              /\ (last.err = "nil") = (shape \notin {"junk", "error", "errorOnly"})
              /\ last.err = "nil" => last.rv = FlagsOf(shape)
              /\ shape \in {"bad", "badContinues"} =>
                    /\ last.decoded
                    /\ out \in {"unset", "partial"}

\* receive has returned success and Continues for a frame that continues and
\* whose parameters could not be decoded; out holds a partial value
C29_BadPayloadAccepted ==
    /\ Returned({"receive"})
    /\ last.units = ReplyFrame("badContinues", nread)
    /\ last.err = "nil"
    /\ last.rv = Continues
    /\ out = "partial"

\* the numbers of the frames the units of buf belong to
FrameNumbers(buf) == [i \in 1..Len(buf) |-> buf[i].f]

\* the frames from..to, two units each
UnitsOfFrames(from, to) == [i \in 1..(2 * (to - from + 1)) |-> from + (i - 1) \div 2]

\* C21: frame reading loses no bytes.  A receive that returns a frame returns
\* the units up to the next NUL, that is the frame whose number is the count
\* of frames returned so far; and all the units the service wrote behind the
\* frames returned so far are still to be had, in the reader or on the
\* transport, so that m frames written are returned by m receives.
C21_NoByteLost ==
    /\ (Returned({"receive"}) /\ last.units # <<>>) =>
            \E shape \in FrameShapes : last.units = ReplyFrame(shape, nread)
    /\ FrameNumbers(rbuf \o wireIn) = UnitsOfFrames(nread + 1, nframes)

\* ReceiveMessage of part_003 has returned the first of two frames that came
\* in one read, and nothing is left of the second
C21_SecondFrameDropped ==
    /\ rimpl = "part_003"
    /\ Returned({"receive"})
    /\ last.units = ReplyFrame("continues", 1)
    /\ nframes = 2
    /\ rbuf = <<>>
    /\ wireIn = <<>>

----------------------------------------------------------------------------
(* Properties of NewInterface and Interface.String (SpecIdl).               *)

\* the index of a member's kind
IndexOf(i, kind) ==
    IF kind = "type" THEN i.aliases
    ELSE IF kind = "method" THEN i.methods
    ELSE i.errors

IndexEntries(i) ==
    Cardinality(DOMAIN i.aliases) + Cardinality(DOMAIN i.methods)
      + Cardinality(DOMAIN i.errors)

\* C5: round trip.  Every interface NewInterface returns is rendered by
\* String (the rendering completes), the rendering is accepted by
\* NewInterface, and the result equals the interface: name, descriptions,
\* members in order, type shapes and alias names.
C5_RoundTrip ==
    /\ (phase = "rendered" => ~rendered.panic)
    /\ (phase = "reparsed" => reparsed = parsed)

\* C5, a case where it fails: an accepted type alias whose body is the empty
\* struct is rendered as "(", newline, ")", which NewInterface rejects.
C5_EmptyStructAliasLost ==
    /\ phase = "reparsed"
    /\ input = Headers[1] \o MemberTexts[2].text
    /\ parsed.status = "ok"
    /\ reparsed.status = "nil"

\* C6: parsing is all-or-nothing.  An input holding a member text that the
\* grammar does not derive makes NewInterface return nil.
C6_MalformedRejected ==
    (phase = "parsed" /\ malformed) => parsed.status = "nil"

\* C6, a case where it fails: "error E (a)", a struct whose field has no
\* type, is accepted as an error without a type, and "(a)" is skipped.
C6_ErrorTextSkipped ==
    /\ phase = "parsed"
    /\ input = Headers[1] \o MemberTexts[13].text
    /\ parsed.status = "ok"
    /\ Len(parsed.members) = 1
    /\ parsed.members[1].kind = "error"
    /\ parsed.members[1].t1 = NilType

\* C7: in every interface NewInterface returns, every member is the value
\* its kind's index stores under its name, and the indexes hold as many
\* entries as there are members.
C7_IndexesMirrorMembers ==
    (phase = "parsed" /\ parsed.status = "ok") =>
        /\ \A k \in 1..Len(parsed.members) :
              LET m == parsed.members[k] IN
              /\ m.name \in DOMAIN IndexOf(parsed, m.kind)
              /\ IndexOf(parsed, m.kind)[m.name] = k
        /\ IndexEntries(parsed) = Len(parsed.members)

\* C7, a case where it fails: two declarations of type A give two members
\* and one index entry, which is the second member.
C7_DuplicateShadowed ==
    /\ phase = "parsed"
    /\ parsed.status = "ok"
    /\ Len(parsed.members) = 2
    /\ parsed.members[1].kind = "type"
    /\ parsed.members[2].kind = "type"
    /\ parsed.members[1].name = parsed.members[2].name
    /\ IndexEntries(parsed) = 1
    /\ parsed.aliases[parsed.members[1].name] = 2

\* the description of the k-th declaration of an interface, the header being
\* the 0-th
DescriptionOf(iface, k) ==
    IF k = 0 THEN iface.description ELSE iface.members[k].description

\* the lines of a description
LinesOf(description) ==
    IF description = NoChars THEN {}
    ELSE {Split(description, "\n")[i] : i \in 1..Len(Split(description, "\n"))}

\* C17: a declaration that takes the pending description leaves the comment
\* buffer empty: in a parsed interface no comment line is in the description
\* of two declarations (header, type, method, error), also when declarations
\* stand on one line.
C17_CommentTakenOnce ==
    (phase = "parsed" /\ parsed.status = "ok") =>
        \A i, j \in 0..Len(parsed.members) :
            i < j => LinesOf(DescriptionOf(parsed, i)) \cap LinesOf(DescriptionOf(parsed, j)) = {}

\* the header's comment is the description of the interface and of the type
\* declared on the header's line
C17_CommentAttachedTwice ==
    /\ phase = "parsed"
    /\ parsed.status = "ok"
    /\ input = Headers[2] \o MemberTexts[11].text
    /\ parsed.description = <<"d">>
    /\ parsed.members[1].description = <<"d">>

\* the member texts that are no declaration and no comment: " (a)", "\nfoo"
TrailingTexts == {14, 15}

\* the description ends with a trailing text that stands behind a declaration
\* or the header, not in a comment
EndsWithTrailingText ==
    /\ given.members # <<>>
    /\ given.members[Len(given.members)] \in TrailingTexts
    /\ \A i \in 1..Len(given.members) : given.members[i] # 10

\* C18: when NewInterface returns an interface the cursor is at the end of
\* the input, only spaces, newlines and comments behind the last member; a
\* description that ends with text that is no member declaration gives nil.
C18_WholeInputParsed ==
    phase = "parsed" =>
        /\ parsed.status = "ok" =>
            ~AtInput(input, Advance(input, ReadInterface(input, Advance(input, NewParser)).p))
        /\ EndsWithTrailingText => parsed.status = "nil"

\* "interface a.b\nerror E (a)", a description followed by " (a)", has been
\* accepted as the interface with the error E
C18_TrailingTextAccepted ==
    /\ phase = "parsed"
    /\ given.members = <<7, 14>>
    /\ parsed.status = "ok"
    /\ Len(parsed.members) = 1

\* C25: for every input, the empty one and those that end behind a '#' or
\* in a comment included, NewInterface returns an interface or nil: no loop
\* runs on without consuming, and no input[start:position] the parser takes
\* is out of 0 <= start <= position <= len(input).
C25_ReturnsOnEveryInput ==
    phase = "parsed" => parsed.status \in {"ok", "nil"}

\* NewInterface("#"): the input ends behind the '#', and the slice of the
\* comment is out of range
C25_HashAtEndPanics ==
    /\ phase = "parsed"
    /\ input = <<"#">>
    /\ parsed.status = "panic"

\* t is no missing type, and no type in it is missing or without a name
RECURSIVE WellFormedType(_)
WellFormedType(t) ==
    CASE t.kind = "nil" -> FALSE
      [] t.kind = "Array" -> t.elem # <<>> /\ WellFormedType(t.elem[1])
      [] t.kind = "Struct" ->
            \A i \in 1..Len(t.fields) :
                t.fields[i].name # NoChars /\ WellFormedType(t.fields[i].type)
      [] t.kind = "Alias" -> t.alias # NoChars
      [] OTHER -> TRUE

\* C26: in an interface NewInterface returns, the body of every type alias
\* and the In and Out of every method are types, every Array in them has an
\* element type, every field of a Struct a name and a type, every Alias a
\* name; the type of an error, where it has one, likewise.
C26_TypesWellFormed ==
    parsed.status = "ok" =>
        \A i \in 1..Len(parsed.members) :
            LET m == parsed.members[i]
            IN CASE m.kind = "type" -> WellFormedType(m.t1)
                 [] m.kind = "method" -> WellFormedType(m.t1) /\ WellFormedType(m.t2)
                 [] OTHER -> m.t1 = NilType \/ WellFormedType(m.t1)

\* NewInterface has returned an interface whose alias A is an Array without
\* an element type, from type A foo[]
C26_ArrayWithoutElement ==
    /\ parsed.status = "ok"
    /\ Len(parsed.members) = 1
    /\ parsed.members[1].kind = "type"
    /\ parsed.members[1].t1 = ArrayType(NilType)

----------------------------------------------------------------------------
(* Properties of Resolve. *)

\* the calls that reached the transport, whole or in part
CallsWritten == {i \in 1..Len(wireOut) : wireOut[i].t = "json"}

\* C11: Resolve of "org.varlink.resolver" returns ResolverAddress without a
\* dial, a send or a receive; for every other name it dials once, issues at
\* most one call, which is org.varlink.resolver.Resolve (exactly one when it
\* returns an address), and has closed the connection it made when it returns,
\* whether it returns an address or an error.
C11_ResolveFrame ==
    rpc = "returned" =>
        IF riface = ResolverName
        THEN /\ rret = [address |-> ResolverAddress, err |-> "nil", name |-> ""]
             /\ ndial = 0
             /\ nclose = 0
             /\ IsUndialed
        ELSE /\ ndial = 1
             /\ Cardinality(CallsWritten) <= 1
             /\ \A i \in CallsWritten : ValueOf(wireOut[i].v, "method") = ResolveMethod
             /\ Len(calls) <= 1
             /\ nread <= 1
             /\ IF rret.err = "dial"
                THEN nclose = 0 /\ IsUndialed
                ELSE /\ nclose = 1
                     /\ conn = "closed"
                     /\ last.op = "Call"
             /\ rret.err = "nil" => Len(calls) = 1 /\ Cardinality(CallsWritten) = 1 /\ nread = 1

\* Resolve of another name has returned an error after its call, the
\* connection closed
C11_ClosedOnError ==
    /\ rpc = "returned"
    /\ riface # ResolverName
    /\ rret.err = "io"
    /\ Len(calls) = 1
    /\ conn = "closed"

\* C12: when the frame the resolver replied with carries an error, Resolve
\* returns an error of exactly that name and the empty address; when it carries
\* an address and no error, Resolve returns that address and no error.
C12_ResolveReply ==
    rpc = "returned" =>
        \A k \in 1..MaxFrames :
            /\ last.units \in {ReplyFrame("error", k), ReplyFrame("errorOnly", k)} =>
                    rret = [address |-> "", err |-> "service", name |-> "org.example.Boom"]
            /\ last.units \in {ReplyFrame("params", k), ReplyFrame("continues", k)} =>
                    rret = [address |-> Tok(k), err |-> "nil", name |-> ""]

\* the Resolve of part_003 has returned the resolver's error
C12_ErrorSurfaced ==
    /\ rpc = "returned"
    /\ rimpl = "part_003"
    /\ \E k \in 1..MaxFrames : last.units = ReplyFrame("errorOnly", k)
    /\ rret.name = "org.example.Boom"

\* C22: a Call whose reply frame is a well-formed object with neither an
\* error nor parameters returns without error and without a crash, and the
\* caller's out value is as it was before the Call.
C22_EmptyReplySucceeds ==
    (Returned({"Call"}) /\ \E k \in 1..MaxFrames : last.units = ReplyFrame("empty", k)) =>
        /\ last.err = "nil"
        /\ ~last.decoded
        /\ out = Undialed.out

\* connection.Call of part_003 has read the empty reply and panicked
C22_EmptyReplyPanics ==
    /\ rimpl = "part_003"
    /\ Returned({"Call"})
    /\ last.units = ReplyFrame("empty", 1)
    /\ last.err = "panic"

\* C30: when Resolve fails with the service error InterfaceNotFound, as the
\* connection's Call returns it, the POST handler of serveRoot and
\* serveInterface answer with status 404; when it fails in any other way,
\* with 500.
C30_NotFoundIs404 ==
    (rpc = "done" /\ rret.err # "nil") =>
        status = IF rret.err = "service" /\ rret.name = InterfaceNotFound
                 THEN 404 ELSE 500

\* the resolver said InterfaceNotFound, Resolve returned that error, and the
\* response has status 500
C30_NotFoundIs500 ==
    /\ rpc = "done"
    /\ rret.err = "service"
    /\ rret.name = InterfaceNotFound
    /\ status = 500

\* C31: every JSON error response of the HTTP bridge, that of jsonError and
\* that of the InterfaceNotFound branch of serveRoot, is sent with the
\* Content-Type application/json: the header is set before WriteHeader takes
\* the header block, so it is in the response that carries the status code.
C31_JsonErrorsSentAsJson ==
    (rpc = "done" /\ writer.body = "error") =>
        /\ writer.code = status
        /\ writer.sent = JsonType

\* serveRoot has answered a failure with jsonError: the handler's map has the
\* JSON type, the response that carries the status code has the type
\* detected from the body
C31_JsonErrorSentAsText ==
    /\ rpc = "done"
    /\ handler = "serveRoot"
    /\ status \in {400, 500}
    /\ writer.body = "error"
    /\ writer.code = status
    /\ writer.header = JsonType
    /\ writer.sent = TextType

----------------------------------------------------------------------------
(* Properties of readInterfaceName (SpecName). *)

\* the name given after "interface "
NameGiven == SubSeq(input, Len(InterfaceKeyword) + 1, Len(input))

\* names of lowercase letters, '-' and '.', 3 to 255 characters long, with a
\* dot, where no segment between dots is empty or begins or ends with '-'
WellFormedName(n) ==
    /\ \A i \in 1..Len(n) : n[i] \in Lower \cup {"-", "."}
    /\ Len(n) >= 3
    /\ Len(n) <= 255
    /\ \E i \in 1..Len(n) : n[i] = "."
    /\ n[1] \notin {"-", "."}
    /\ n[Len(n)] \notin {"-", "."}
    /\ \A i \in 1..(Len(n) - 1) :
        /\ ~(n[i] = "." /\ n[i + 1] \in {"-", "."})
        /\ ~(n[i] = "-" /\ n[i + 1] = ".")

\* C13: an interface description that is "interface " and a name is accepted
\* exactly when the name is of lowercase letters, '-' and '.', 3 to 255
\* characters long, of at least two dot-separated segments, none empty or
\* beginning or ending with '-'; the interface then has that name.
C13_InterfaceNames ==
    phase = "parsed" =>
        /\ parsed.status \in {"ok", "nil"}
        /\ parsed.status = "ok" <=> WellFormedName(NameGiven)
        /\ parsed.status = "ok" => parsed.name = NameGiven

\* "a.b-" has been rejected
C13_TrailingDashRejected ==
    /\ phase = "parsed"
    /\ NameGiven = <<"a", ".", "b", "-">>
    /\ parsed.status = "nil"

----------------------------------------------------------------------------
(* Properties of readType (SpecType). *)

\* the type read at the position of the only member
TypeAt(iface, position) ==
    CASE position = "field" -> iface.members[1].t1.fields[1].type
      [] position = "out" -> iface.members[1].t2
      [] OTHER -> iface.members[1].t1

\* C14: a base type followed by one [] is read as the array of the base type,
\* wherever a type can stand; followed by two or more [], as the body of an
\* alias, the type of a struct field, the input or the output of a method or
\* the payload of an error, it makes NewInterface return nil.
C14_ArraySuffix ==
    phase = "parsed" =>
        /\ given.suffixes = 1 =>
            /\ parsed.status = "ok"
            /\ Len(parsed.members) = 1
            /\ TypeAt(parsed, given.position).kind = "Array"
            /\ TypeAt(parsed, given.position).elem = <<BaseTexts[given.base].type>>
        /\ given.suffixes >= 2 => parsed.status = "nil"

\* string[][] as the payload of an error has been rejected
C14_DoubleArrayRejected ==
    /\ phase = "parsed"
    /\ given.position = "error"
    /\ BaseTexts[given.base].type = BaseType("String")
    /\ given.suffixes = 2
    /\ parsed.status = "nil"

----------------------------------------------------------------------------
(* Properties of DefaultValue (SpecDefault).  A value is looked at when the *)
(* call has returned one; a call on a cycle of aliases returns none.        *)

FieldNames(t) == {t.fields[i].name : i \in 1..Len(t.fields)}

\* the field of a name that is declared last
LastField(t, n) ==
    t.fields[CHOOSE i \in 1..Len(t.fields) :
                /\ t.fields[i].name = n
                /\ \A j \in (i + 1)..Len(t.fields) : t.fields[j].name # n]

\* v is the default of t as far as t itself says: the zero value of a basic
\* type, the empty sequence for an array, for a struct a mapping of exactly
\* its field names
IsDefaultOf(t, v) ==
    CASE t.kind = "Bool" -> v.k = "bool" /\ v.v = "false"
      [] t.kind = "Int" -> v.k = "int" /\ v.v = "0"
      [] t.kind = "Float" -> v.k = "float64" /\ v.v = "0.0"
      [] t.kind = "String" -> v.k = "string" /\ v.v = ""
      [] t.kind = "Array" -> v.k = "array" /\ v.v = <<>>
      [] t.kind = "Struct" -> v.k = "map" /\ DOMAIN v.v = FieldNames(t)
      [] OTHER -> TRUE

\* (a: bool, b: int, c: string[])
ExampleStruct ==
    StructType(<<[name |-> <<"a">>, type |-> BaseType("Bool")],
                 [name |-> <<"b">>, type |-> BaseType("Int")],
                 [name |-> <<"c">>, type |-> ArrayType(BaseType("String"))]>>)

\* {a: false, b: 0, c: []}
ExampleDefault ==
    [k |-> "map",
     v |-> [n \in {<<"a">>, <<"b">>, <<"c">>} |->
                IF n = <<"a">> THEN [k |-> "bool", v |-> "false"]
                ELSE IF n = <<"b">> THEN [k |-> "int", v |-> "0"]
                ELSE [k |-> "array", v |-> <<>>]]]

\* v is the mapping {a: false, b: 0, c: []}
IsExampleDefault(v) ==
    /\ v.k = "map"
    /\ DOMAIN v.v = DOMAIN ExampleDefault.v
    /\ \A n \in DOMAIN v.v : v.v[n].k = ExampleDefault.v[n].k /\ v.v[n].v = ExampleDefault.v[n].v

\* C15: the value DefaultValue returns is false for Bool, 0 for Int, 0.0 for
\* Float, "" for String, the empty sequence for an Array whatever its element
\* type, and for a Struct a mapping whose keys are exactly the declared field
\* names, each mapped to the default of its field's type; for
\* (a: bool, b: int, c: string[]) it is {a: false, b: 0, c: []}.
C15_Defaults ==
    (phase = "defaulted" /\ dvalue.k # "unbounded") =>
        /\ IsDefaultOf(dtype, dvalue)
        /\ dtype.kind = "Struct" =>
            \A n \in FieldNames(dtype) : IsDefaultOf(LastField(dtype, n).type, dvalue.v[n])
        /\ dtype = ExampleStruct => IsExampleDefault(dvalue)

\* DefaultValue has returned the default of (a: bool, b: int, c: string[]) in
\* an interface that declares the struct and no other type
C15_ExampleDefault ==
    /\ phase = "defaulted"
    /\ DOMAIN parsed.aliases = {<<"A">>}
    /\ dtype = ExampleStruct
    /\ IsExampleDefault(dvalue)

\* the type an alias name stands for in the interface
Underlying(iface, name) == iface.members[iface.aliases[name]].t1

\* C16: DefaultValue of an Alias whose name is not in the interface's Aliases
\* returns null, and does return; of an Alias whose name is in Aliases it
\* returns the default of the type the alias stands for (looked through one
\* more alias where that type is an alias again).
C16_AliasDefault ==
    (phase = "defaulted" /\ dtype.kind = "Alias") =>
        IF dtype.alias \notin DOMAIN parsed.aliases THEN dvalue.k = "nil"
        ELSE dvalue.k # "unbounded" =>
            LET t == Underlying(parsed, dtype.alias)
            IN /\ IsDefaultOf(t, dvalue)
               /\ t = ExampleStruct => IsExampleDefault(dvalue)
               /\ t.kind = "Alias" =>
                    IF t.alias \notin DOMAIN parsed.aliases THEN dvalue.k = "nil"
                    ELSE /\ IsDefaultOf(Underlying(parsed, t.alias), dvalue)
                         /\ Underlying(parsed, t.alias) = ExampleStruct =>
                                IsExampleDefault(dvalue)

\* DefaultValue of the alias Missing, which the interface does not declare,
\* has returned null
C16_MissingAliasNull ==
    /\ phase = "defaulted"
    /\ dtype = AliasType(<<"M", "i", "s", "s", "i", "n", "g">>)
    /\ dtype.alias \notin DOMAIN parsed.aliases
    /\ dvalue.k = "nil"

\* the alias names a type refers to, through the fields of structs and not
\* through the elements of arrays
RECURSIVE AliasRefs(_)
AliasRefs(t) ==
    CASE t.kind = "Alias" -> {t.alias}
      [] t.kind = "Struct" -> UNION {AliasRefs(t.fields[i].type) : i \in 1..Len(t.fields)}
      [] OTHER -> {}

\* the alias names the body of a declared alias refers to
BodyRefs(iface, a) ==
    IF a \in DOMAIN iface.aliases THEN AliasRefs(Underlying(iface, a)) ELSE {}

RECURSIVE ReachIn(_, _, _)
ReachIn(iface, names, n) ==
    IF n = 0 THEN names
    ELSE ReachIn(iface, names \cup UNION {BodyRefs(iface, a) : a \in names}, n - 1)

\* the alias names reachable from the given ones
Reach(iface, names) == ReachIn(iface, names, Cardinality(DOMAIN iface.aliases))

\* the alias references reachable from t contain a cycle
Cyclic(iface, t) ==
    \E a \in Reach(iface, AliasRefs(t)) : a \in Reach(iface, BodyRefs(iface, a))

\* C23: DefaultValue(t) returns a value whenever the alias references
\* reachable from t through struct fields and alias bodies, array elements
\* left out, contain no cycle; when they contain a cycle, a self-referencing
\* alias included, the recursion is unbounded and it returns no value.
C23_ReturnsIffAcyclic ==
    phase = "defaulted" =>
        IF Cyclic(parsed, dtype) THEN dvalue.k = "unbounded"
        ELSE dvalue.k \in {"bool", "int", "float64", "string", "array", "map", "nil"}

\* DefaultValue of the alias A in an interface that declares type A A
C23_SelfReference ==
    /\ phase = "defaulted"
    /\ dtype = AliasType(<<"A">>)
    /\ <<"A">> \in DOMAIN parsed.aliases
    /\ Underlying(parsed, <<"A">>) = dtype
    /\ dvalue.k = "unbounded"

----------------------------------------------------------------------------
(* Properties of NewConnection and Dial (SpecDial). *)

\* the place of the first ch of s at or behind from, Len(s) + 1 without one
FirstIndex(s, ch, from) ==
    IF \E i \in from..Len(s) : s[i] = ch
    THEN CHOOSE i \in from..Len(s) : s[i] = ch /\ \A j \in from..(i - 1) : s[j] # ch
    ELSE Len(s) + 1

\* the text before the first ':'
TransportOf(a) == SubSeq(a, 1, FirstIndex(a, ":", 1) - 1)

\* the text between the first ':' and the first ';' behind it
EndpointOf(a) ==
    SubSeq(a, FirstIndex(a, ":", 1) + 1,
           FirstIndex(a, ";", FirstIndex(a, ":", 1) + 1) - 1)

\* C24: for every address the call returns a connection or an error and does
\* not crash; a connection it returns was dialed on the transport before the
\* first ':' to the endpoint between that ':' and the first ';', whatever is
\* behind the ';'; a dial that fails gives an error and no connection.
C24_AddressHandling ==
    dret # NoDial =>
        /\ dret.err # "panic"
        /\ (dret.conn = "open") = (dret.err = "nil")
        /\ dret.conn = "open" =>
              /\ dret.network = TransportOf(address)
              /\ dret.endpoint = EndpointOf(address)

\* NewConnection("unix"), an address without ':', has ended in a panic
C24_NoColonPanics ==
    /\ rimpl = "part_001"
    /\ address = UnixNetwork
    /\ dret.err = "panic"

====
